---- MODULE Spec2Model ----
(***************************************************************************)
(* QuizForge: the iterative quiz-generation pipeline                       *)
(* (generateQuizIteratively), the structured-completion client             *)
(* (LlmJsonClient.completeJson), the open-ended grader, the chat reply and *)
(* the POST /api/quizzes/generate handler.                                 *)
(*                                                                         *)
(* Conventions.  A JavaScript string is a sequence of tokens: single       *)
(* characters for caller/provider text, one token per literal fragment of  *)
(* the code.  An optional value (undefined | x) is the sequence <<>> or    *)
(* <<x>>.  A JSON value of unknown shape is a record [k, v] tagged by its  *)
(* JavaScript type.  A number that need not be an integer is carried in    *)
(* integer part plus a half (JHalf(4) is 4.5).                             *)
(***************************************************************************)
EXTENDS Integers, Sequences, FiniteSets, TLC

\* ------------------------------------------------------------------------
\* Bounds of the model
\* ------------------------------------------------------------------------
MaxSources == 2

\* longest list of a coverage blueprint handed to the sizing heuristic
MaxBlueprintItems == 13

\* longest array handed to coerceStringArrayItems on its own
MaxCoerceItems == 2

\* longest answer text handed to scoreMultipleChoice
MaxAnswerLength == 3

\* operations in progress at the same time
MaxRuns == 2

\* answer records handed to getTroubleQuestionCandidates
MaxStoredAnswers == 3

\* ------------------------------------------------------------------------
\* Options and strings
\* ------------------------------------------------------------------------
None == <<>>

Some(x) == <<x>>

IsSome(o) == Len(o) > 0

WhiteSpace == {" ", "\t", "\n"}

RECURSIVE TrimLeft(_)
TrimLeft(s) ==
  IF s = <<>> THEN s
  ELSE IF Head(s) \in WhiteSpace THEN TrimLeft(Tail(s)) ELSE s

RECURSIVE TrimRight(_)
TrimRight(s) ==
  IF s = <<>> THEN s
  ELSE IF s[Len(s)] \in WhiteSpace THEN TrimRight(SubSeq(s, 1, Len(s) - 1)) ELSE s

\* String.prototype.trim
Trim(s) == TrimRight(TrimLeft(s))

\* String.prototype.toLowerCase, on the alphabet the model uses
LowerChar(c) ==
  CASE c = "A" -> "a"
    [] c = "B" -> "b"
    [] c = "E" -> "e"
    [] c = "JSON_SCHEMA" -> "json_schema"
    [] c = "Response_Format" -> "response_format"
    [] c = "Not Supported" -> "not supported"
    [] c = "Unsupported" -> "unsupported"
    [] c = "On" -> "on"
    [] OTHER -> c

ToLowerCase(s) == [i \in 1..Len(s) |-> LowerChar(s[i])]

\* String.prototype.includes
Includes(hay, needle) ==
  \E i \in 0..(Len(hay) - Len(needle)) : SubSeq(hay, i + 1, i + Len(needle)) = needle

\* String.prototype.slice(0, n)
SliceTo(s, n) == SubSeq(s, 1, IF Len(s) < n THEN Len(s) ELSE n)

Min(a, b) == IF a < b THEN a ELSE b

Max(a, b) == IF a > b THEN a ELSE b

\* ------------------------------------------------------------------------
\* JSON values of unknown shape
\* ------------------------------------------------------------------------
JUndef == [k |-> "undefined", v |-> <<>>]

JNull == [k |-> "null", v |-> <<>>]

JStr(s) == [k |-> "string", v |-> s]

\* an integer number n
JNum(n) == [k |-> "number", v |-> <<n>>]

\* the non-integer number n + 0.5
JHalf(n) == [k |-> "number", v |-> <<n, 5>>]

\* NaN: typeof is "number", Number.isFinite is false
JNaN == [k |-> "NaN", v |-> <<>>]

TypeOf(j) == IF j.k \in {"number", "NaN"} THEN "number" ELSE j.k

NumberIsFinite(j) == j.k = "number"

NumberIsInteger(j) == j.k = "number" /\ Len(j.v) = 1

\* Math.round: n stays n, n + 0.5 goes up to n + 1
MathRound(j) == IF Len(j.v) = 1 THEN j.v[1] ELSE j.v[1] + 1

JBool(b) == [k |-> "boolean", v |-> <<b>>]

JArr(items) == [k |-> "array", v |-> items]

\* an object is its ordered list of properties [key, val]
JObj(props) == [k |-> "object", v |-> props]

Prop(key, val) == [key |-> key, val |-> val]

HasKey(o, key) == \E i \in 1..Len(o.v) : o.v[i].key = key

\* value[key]
Field(o, key) ==
  IF o.k = "object" /\ HasKey(o, key)
  THEN o.v[CHOOSE i \in 1..Len(o.v) : o.v[i].key = key].val
  ELSE JUndef

\* String(value) for a number or a boolean
NumberToString(v) ==
  IF v = <<>> THEN <<"NaN">> ELSE IF Len(v) = 1 THEN <<ToString(v[1])>> ELSE <<ToString(v[1]), ".5">>

BoolToString(b) == IF b THEN <<"true">> ELSE <<"false">>

RECURSIVE JsonStringify(_)
RECURSIVE JsonStringifyItems(_)
RECURSIVE JsonStringifyProps(_)
\* JSON.stringify
JsonStringify(j) ==
  CASE j.k = "string" -> <<"\"">> \o j.v \o <<"\"">>
    [] j.k = "number" -> NumberToString(j.v)
    [] j.k = "boolean" -> BoolToString(j.v[1])
    [] j.k = "array" -> <<"[">> \o JsonStringifyItems(j.v) \o <<"]">>
    [] j.k = "object" ->
         <<"{">> \o JsonStringifyProps(SelectSeq(j.v, LAMBDA p : p.val.k # "undefined")) \o <<"}">>
    [] OTHER -> <<"null">>

JsonStringifyItems(items) ==
  IF items = <<>> THEN <<>>
  ELSE JsonStringify(Head(items))
       \o (IF Len(items) > 1 THEN <<",">> ELSE <<>>)
       \o JsonStringifyItems(Tail(items))

JsonStringifyProps(props) ==
  IF props = <<>> THEN <<>>
  ELSE <<"\"", Head(props).key, "\"", ":">> \o JsonStringify(Head(props).val)
       \o (IF Len(props) > 1 THEN <<",">> ELSE <<>>)
       \o JsonStringifyProps(Tail(props))

\* ------------------------------------------------------------------------
\* Multiple-choice scoring (scoring.ts)
\* ------------------------------------------------------------------------
DigitValue(c) ==
  CASE c = "0" -> 0 [] c = "1" -> 1 [] c = "2" -> 2 [] c = "3" -> 3 [] c = "4" -> 4
    [] c = "5" -> 5 [] c = "6" -> 6 [] c = "7" -> 7 [] c = "8" -> 8 [] c = "9" -> 9
    [] OTHER -> -1

\* how many characters at the start of s are decimal digits
LeadingDigits(s) ==
  CHOOSE n \in 0..Len(s) :
    /\ \A i \in 1..n : DigitValue(s[i]) >= 0
    /\ n < Len(s) => DigitValue(s[n + 1]) < 0

RECURSIVE DecimalValue(_)
DecimalValue(digits) ==
  IF digits = <<>> THEN 0
  ELSE 10 * DecimalValue(SubSeq(digits, 1, Len(digits) - 1)) + DigitValue(digits[Len(digits)])

\* Number.parseInt(s, 10): leading white space skipped, an optional sign, the
\* longest run of digits, the rest ignored; <<>> stands for NaN
parseInt(s) ==
  LET t == TrimLeft(s)
      signed == t # <<>> /\ t[1] \in {"+", "-"}
      body == IF signed THEN Tail(t) ELSE t
      n == LeadingDigits(body)
      magnitude == DecimalValue(SubSeq(body, 1, n))
  IN IF n = 0 THEN None
     ELSE Some(IF signed /\ t[1] = "-" THEN 0 - magnitude ELSE magnitude)

\* a scoring that reads an unparsable answer as choice 0
scoreMultipleChoiceNaNAsZero(correctIndex, userAnswer) ==
  LET parsed == IF parseInt(userAnswer) = None THEN Some(0) ELSE parseInt(userAnswer)
      isCorrect == JNum(parsed[1]) = correctIndex
  IN [correctness |-> IF isCorrect THEN "correct" ELSE "incorrect",
      score |-> IF isCorrect THEN 1 ELSE 0]

\* correctIndex is a JavaScript number: an integer, a non-integer or NaN
scoreMultipleChoice(correctIndex, userAnswer) ==
  LET parsed == parseInt(userAnswer)
  IN IF parsed = None
     THEN [correctness |-> "incorrect", score |-> 0]
     ELSE LET isCorrect == JNum(parsed[1]) = correctIndex
          IN [correctness |-> IF isCorrect THEN "correct" ELSE "incorrect",
              score |-> IF isCorrect THEN 1 ELSE 0]

\* ------------------------------------------------------------------------
\* Coercion utilities (quiz-generator)
\* ------------------------------------------------------------------------
preferredKeys == <<"name", "title", "label", "concept", "text", "description", "summary">>

IsTextCandidate(c) == c.k = "string" /\ Trim(c.v) # <<>>

\* a lookup that takes the first usable property in the object's own order
pickTextFromObjectOwnOrder(value) ==
  LET hits == {i \in 1..Len(value.v) :
                 /\ value.k = "object"
                 /\ \E k \in 1..Len(preferredKeys) : preferredKeys[k] = value.v[i].key
                 /\ IsTextCandidate(value.v[i].val)}
  IN IF hits = {} THEN None
     ELSE LET first == CHOOSE i \in hits : \A h \in hits : i <= h
          IN Some(Trim(value.v[first].val.v))

pickTextFromObject(value) ==
  LET hits == {i \in 1..Len(preferredKeys) : IsTextCandidate(Field(value, preferredKeys[i]))}
  IN IF hits = {} THEN None
     ELSE LET first == CHOOSE i \in hits : \A h \in hits : i <= h
          IN Some(Trim(Field(value, preferredKeys[first]).v))

coerceToText(value) ==
  CASE value.k = "string" ->
         (IF Trim(value.v) = <<>> THEN None ELSE Some(Trim(value.v)))
    [] value.k \in {"number", "NaN"} -> Some(NumberToString(value.v))
    [] value.k = "boolean" -> Some(BoolToString(value.v[1]))
    [] value.k \in {"object", "array"} ->
         LET direct == pickTextFromObject(value)
             json == JsonStringify(value)
         IN IF IsSome(direct) THEN direct
            ELSE IF json = <<"{", "}">> THEN None ELSE Some(json)
    [] OTHER -> None

RECURSIVE CoerceEach(_)
CoerceEach(items) ==
  IF items = <<>> THEN <<>>
  ELSE coerceToText(Head(items)) \o CoerceEach(Tail(items))

coerceStringArrayItems(input) ==
  IF input.k # "array" THEN <<>> ELSE CoerceEach(input.v)

\* a string[] seen as a value of unknown shape
StringsAsJson(list) == JArr([i \in 1..Len(list) |-> JStr(list[i])])

\* ------------------------------------------------------------------------
\* Output schemas (zod): parse yields <<value>> or <<>> (a ZodError)
\* ------------------------------------------------------------------------
IsString(j) == j.k = "string"

\* z.string().optional(): absent or a string
IsOptString(j) == j.k \in {"undefined", "string"}

OptStringOf(j) == IF j.k = "string" THEN Some(j.v) ELSE None

IsStringArray(j) == j.k = "array" /\ \A i \in 1..Len(j.v) : IsString(j.v[i])

StringsOf(j) == [i \in 1..Len(j.v) |-> j.v[i].v]

metadataSchema(j) ==
  IF j.k = "object" /\ IsString(Field(j, "title")) /\ IsString(Field(j, "topic"))
     /\ IsString(Field(j, "description"))
  THEN Some([title |-> Field(j, "title").v, topic |-> Field(j, "topic").v,
             description |-> Field(j, "description").v])
  ELSE None

\* a list schema that coerces but does not check the length
flexibleStringArraySchemaNoMinimum(minItems, j) == Some(coerceStringArrayItems(j))

\* z.preprocess(coerceStringArrayItems, z.array(z.string()).min(minItems))
flexibleStringArraySchema(minItems, j) ==
  LET coerced == coerceStringArrayItems(j)
  IN IF Len(coerced) >= minItems THEN Some(coerced) ELSE None

coverageSchema(j) ==
  LET goals == flexibleStringArraySchema(1, Field(j, "learningGoals"))
      concepts == flexibleStringArraySchema(3, Field(j, "concepts"))
      misc == flexibleStringArraySchema(1, Field(j, "misconceptions"))
  IN IF j.k = "object" /\ IsString(Field(j, "topic"))
        /\ IsSome(goals) /\ IsSome(concepts) /\ IsSome(misc)
     THEN Some([topic |-> Field(j, "topic").v, learningGoals |-> goals[1],
                concepts |-> concepts[1], misconceptions |-> misc[1]])
     ELSE None

QuestionTypes == {"multiple_choice", "open_ended"}

\* the question object common to questionDraftSchema and finalQuizSchema
QuestionShapeOk(q, withExplanation) ==
  /\ q.k = "object"
  /\ IsString(Field(q, "type")) /\ Field(q, "type").v \in {<<t>> : t \in QuestionTypes}
  /\ IsString(Field(q, "prompt"))
  /\ Field(q, "choices").k = "undefined" \/ IsStringArray(Field(q, "choices"))
  /\ Field(q, "correctChoiceIndex").k = "undefined" \/ NumberIsInteger(Field(q, "correctChoiceIndex"))
  /\ IsOptString(Field(q, "expectedAnswer"))
  /\ IsOptString(Field(q, "rubric"))
  /\ withExplanation => IsOptString(Field(q, "explanation"))

QuestionOf(q, withExplanation) ==
  [type |-> Field(q, "type").v[1],
   prompt |-> Field(q, "prompt").v,
   choices |-> IF Field(q, "choices").k = "array" THEN Some(StringsOf(Field(q, "choices"))) ELSE None,
   correctChoiceIndex |-> IF Field(q, "correctChoiceIndex").k = "number"
                          THEN Some(Field(q, "correctChoiceIndex").v[1]) ELSE None,
   expectedAnswer |-> OptStringOf(Field(q, "expectedAnswer")),
   rubric |-> OptStringOf(Field(q, "rubric")),
   explanation |-> IF withExplanation THEN OptStringOf(Field(q, "explanation")) ELSE None]

QuestionArrayOk(qs, withExplanation) ==
  /\ qs.k = "array"
  /\ Len(qs.v) >= 1
  /\ \A i \in 1..Len(qs.v) : QuestionShapeOk(qs.v[i], withExplanation)

questionDraftSchema(j) ==
  IF j.k = "object" /\ IsString(Field(j, "title")) /\ QuestionArrayOk(Field(j, "questions"), FALSE)
  THEN Some([title |-> Field(j, "title").v,
             questions |-> [i \in 1..Len(Field(j, "questions").v) |->
                              QuestionOf(Field(j, "questions").v[i], FALSE)]])
  ELSE None

critiqueSchema(j) ==
  IF j.k = "object" /\ IsStringArray(Field(j, "issues")) /\ IsStringArray(Field(j, "strengths"))
     /\ IsStringArray(Field(j, "revisions"))
  THEN Some([issues |-> StringsOf(Field(j, "issues")), strengths |-> StringsOf(Field(j, "strengths")),
             revisions |-> StringsOf(Field(j, "revisions"))])
  ELSE None

finalQuizSchema(j) ==
  IF j.k = "object" /\ IsString(Field(j, "title")) /\ IsString(Field(j, "topic"))
     /\ IsString(Field(j, "summary")) /\ QuestionArrayOk(Field(j, "questions"), TRUE)
  THEN Some([title |-> Field(j, "title").v, topic |-> Field(j, "topic").v,
             summary |-> Field(j, "summary").v,
             questions |-> [i \in 1..Len(Field(j, "questions").v) |->
                              QuestionOf(Field(j, "questions").v[i], TRUE)]])
  ELSE None

CorrectnessValues == {"correct", "partially_correct", "incorrect"}

\* z.number().min(0).max(1) on a number carried as n or n + 0.5
IsUnitNumber(j) ==
  j.k = "number" /\ (IF Len(j.v) = 1 THEN j.v[1] \in {0, 1} ELSE j.v[1] = 0)

\* a confidence in hundredths
Hundredths(j) == 100 * j.v[1] + (IF Len(j.v) = 1 THEN 0 ELSE 50)

gradeSchema(j) ==
  IF j.k = "object" /\ IsString(Field(j, "correctness"))
     /\ Field(j, "correctness").v \in {<<c>> : c \in CorrectnessValues}
     /\ IsUnitNumber(Field(j, "confidence"))
     /\ IsString(Field(j, "explanation")) /\ IsString(Field(j, "followup"))
  THEN Some([correctness |-> Field(j, "correctness").v[1],
             confidence |-> Hundredths(Field(j, "confidence")),
             explanation |-> Field(j, "explanation").v,
             followup |-> Field(j, "followup").v])
  ELSE None

chatReplySchema(j) ==
  IF j.k = "object" /\ IsString(Field(j, "reply"))
  THEN Some([reply |-> Field(j, "reply").v])
  ELSE None

\* ------------------------------------------------------------------------
\* Pure helpers of the generation pipeline
\* ------------------------------------------------------------------------
ClipLimit == 7000

\* A source content is [len, head, rest]: its length, the identity of its
\* first ClipLimit characters and the identity of what follows them.
buildSourcePacket(sources) ==
  [i \in 1..Len(sources) |->
     [index |-> i, origin |-> sources[i].origin, title |-> sources[i].title,
      content |-> [head |-> sources[i].content.head,
                   len |-> Min(sources[i].content.len, ClipLimit),
                   truncated |-> sources[i].content.len > ClipLimit]]]

\* a fallback builder that alternates starting with an open-ended question
fallbackQuestionOpenFirst(idx, topic) ==
  IF idx % 2 = 1
  THEN [type |-> "multiple_choice",
        prompt |-> <<"Which statement best reflects concept #", ToString(idx + 1), " in ">> \o topic \o <<"?">>,
        choices |-> Some(<< <<"Option A">>, <<"Option B">>, <<"Option C">>, <<"Option D">> >>),
        correctChoiceIndex |-> Some(0),
        expectedAnswer |-> None,
        rubric |-> None,
        explanation |-> Some(<<"Option A is currently the baseline answer in fallback mode.">>)]
  ELSE [type |-> "open_ended",
        prompt |-> <<"Explain concept #", ToString(idx + 1), " from ">> \o topic \o <<" in your own words.">>,
        choices |-> None,
        correctChoiceIndex |-> None,
        expectedAnswer |-> Some(<<"A complete answer should explain the concept and give one concrete example.">>),
        rubric |-> Some(<<"Award full credit for conceptual correctness + example.">>),
        explanation |-> Some(<<"Focus on conceptual clarity and example quality.">>)]

\* a fallback builder whose questions are all multiple choice
fallbackQuestionAllChoice(idx, topic) ==
  [type |-> "multiple_choice",
   prompt |-> <<"Which statement best reflects concept #", ToString(idx + 1), " in ">> \o topic \o <<"?">>,
   choices |-> Some(<< <<"Option A">>, <<"Option B">>, <<"Option C">>, <<"Option D">> >>),
   correctChoiceIndex |-> Some(0),
   expectedAnswer |-> None,
   rubric |-> None,
   explanation |-> Some(<<"Option A is currently the baseline answer in fallback mode.">>)]

fallbackQuestion(idx, topic) ==
  IF idx % 2 = 0
  THEN [type |-> "multiple_choice",
        prompt |-> <<"Which statement best reflects concept #", ToString(idx + 1), " in ">> \o topic \o <<"?">>,
        choices |-> Some(<< <<"Option A">>, <<"Option B">>, <<"Option C">>, <<"Option D">> >>),
        correctChoiceIndex |-> Some(0),
        expectedAnswer |-> None,
        rubric |-> None,
        explanation |-> Some(<<"Option A is currently the baseline answer in fallback mode.">>)]
  ELSE [type |-> "open_ended",
        prompt |-> <<"Explain concept #", ToString(idx + 1), " from ">> \o topic \o <<" in your own words.">>,
        choices |-> None,
        correctChoiceIndex |-> None,
        expectedAnswer |-> Some(<<"A complete answer should explain the concept and give one concrete example.">>),
        rubric |-> Some(<<"Award full credit for conceptual correctness + example.">>),
        explanation |-> Some(<<"Focus on conceptual clarity and example quality.">>)]

fallbackQuiz(topic, title, count) ==
  LET safeCount == Max(4, count)
  IN [title |-> title,
      topic |-> topic,
      summary |-> <<"Fallback quiz generated when the LLM is not available.">>,
      questions |-> [i \in 1..safeCount |-> fallbackQuestion(i - 1, topic)]]

MinQuestions == 4

MaxQuestions == 20

\* a clamp that forgets the lower limit
clampQuestionCountNoFloor(value) == Min(MaxQuestions, MathRound(value))

clampQuestionCount(value) == Max(MinQuestions, Min(MaxQuestions, MathRound(value)))

RECURSIVE SumContentLengths(_)
SumContentLengths(sources) ==
  IF sources = <<>> THEN 0 ELSE Head(sources).content.len + SumContentLengths(Tail(sources))

\* bands whose lower limits are exclusive
baseCountForStrictBands(totalChars) ==
  IF totalChars > 25000 THEN 14
  ELSE IF totalChars > 12000 THEN 12
  ELSE IF totalChars > 6000 THEN 10
  ELSE IF totalChars > 2500 THEN 8
  ELSE 6

\* bands given an upper limit each, the top band left unreachable
baseCountForShadowedBands(totalChars) ==
  IF totalChars >= 25000 /\ totalChars < 6000 THEN 14
  ELSE IF totalChars >= 12000 /\ totalChars < 25000 THEN 12
  ELSE IF totalChars >= 6000 /\ totalChars < 12000 THEN 10
  ELSE IF totalChars >= 2500 /\ totalChars < 6000 THEN 8
  ELSE 6

baseCountFor(totalChars) ==
  IF totalChars >= 25000 THEN 14
  ELSE IF totalChars >= 12000 THEN 12
  ELSE IF totalChars >= 6000 THEN 10
  ELSE IF totalChars >= 2500 THEN 8
  ELSE 6

\* Math.ceil(a / b) for a >= 0, b > 0
CeilDiv(a, b) == (a + b - 1) \div b

\* a boost that wraps around instead of saturating
complexityBoostWrapping(coverage) ==
  LET complexitySignals ==
        Len(coverage.concepts) + Len(coverage.misconceptions) + CeilDiv(Len(coverage.learningGoals), 2)
  IN (CeilDiv(complexitySignals, 5) + 4) % 5

complexityBoostFor(coverage) ==
  LET complexitySignals ==
        Len(coverage.concepts) + Len(coverage.misconceptions) + CeilDiv(Len(coverage.learningGoals), 2)
  IN Min(4, Max(0, CeilDiv(complexitySignals, 5) - 1))

\* a heuristic that adds the raw signal count and does not clamp
chooseQuestionCountUnbounded(sources, coverage) ==
  baseCountFor(SumContentLengths(sources))
  + Len(coverage.concepts) + Len(coverage.misconceptions) + CeilDiv(Len(coverage.learningGoals), 2)

chooseQuestionCountFromSources(sources, coverage) ==
  clampQuestionCount(JNum(baseCountFor(SumContentLengths(sources)) + complexityBoostFor(coverage)))

\* ------------------------------------------------------------------------
\* State
\* ------------------------------------------------------------------------
VARIABLES
  env,                    \* process.env: MOCK_LLM = "1", OPENAI_API_KEY non-empty
  schemaCounter,          \* LlmJsonClient.schemaCounter (static)
  providerRequests,       \* chat.completions.create calls issued so far
  op,                     \* the operation in progress: [kind, input]
  pc,                     \* where the operation is suspended
  llm,                    \* the LlmJsonClient of the operation, once constructed
  call,                   \* the completeJson call in progress (or the last one)
  trace,                  \* start / return / throw events of the completeJson calls
  locals,                 \* locals of generateQuizIteratively computed before pass 1
  generatedMetadata,      \* result of pass 1
  resolved,               \* resolvedTitle / resolvedTopic / resolvedDescription
  coverage,               \* result of pass 2
  resolvedQuestionCount,  \* the sizing decision
  heuristicConsulted,     \* whether chooseQuestionCountFromSources was evaluated
  draft,                  \* result of pass 3
  critique,               \* result of pass 4
  finalQuiz,              \* result of pass 5
  result,                 \* outcome of the operation: returned value or rejection
  db,                     \* quiz and question records
  response,               \* the HTTP response, once sent
  runRequests,            \* chat.completions.create calls issued by the operation
  parked                  \* the other operations, each suspended at an await

vars ==
  <<env, schemaCounter, providerRequests, op, pc, llm, call, trace, locals,
    generatedMetadata, resolved, coverage, resolvedQuestionCount, heuristicConsulted,
    draft, critique, finalQuiz, result, db, response, runRequests, parked>>

pipelineVars ==
  <<locals, generatedMetadata, resolved, coverage, resolvedQuestionCount, heuristicConsulted,
    draft, critique, finalQuiz>>

\* ------------------------------------------------------------------------
\* Structured-completion client (llm.ts)
\* ------------------------------------------------------------------------
MakeError(message) == [isError |-> TRUE, message |-> message]

MissingKeyError == MakeError(<<"OPENAI_API_KEY is required unless MOCK_LLM=1.">>)

EmptyResponseError == MakeError(<<"LLM returned empty JSON response.">>)

JsonSyntaxError == MakeError(<<"Unexpected token in JSON">>)

ZodError == MakeError(<<"ZodError: invalid structured output">>)

OpenAIConstructorError == MakeError(<<"The OPENAI_API_KEY environment variable is missing or empty">>)

\* new LlmJsonClient(): the configuration is read from process.env here
LlmJsonClient(e) ==
  [mockMode |-> e.MOCK_LLM,
   client |-> ~e.MOCK_LLM,
   apiKey |-> ~e.MOCK_LLM /\ e.OPENAI_API_KEY]

\* new OpenAI({apiKey: undefined}) is library code: it may reject the missing key
ConstructorMayThrow(e) == ~e.MOCK_LLM /\ ~e.OPENAI_API_KEY

NoCall ==
  [name |-> "none", schema |-> "none", messages |-> <<>>, status |-> "none", requests |-> <<>>,
   keyAtStart |-> FALSE, fallbackUsed |-> FALSE, value |-> None, error |-> None,
   firstError |-> None, reply |-> None]

StrictRequest(counter, messages) ==
  [mode |-> "json_schema", strict |-> TRUE, schemaName |-> counter, messages |-> messages]

LooseRequest(messages) ==
  [mode |-> "json_object", strict |-> FALSE, schemaName |-> -1, messages |-> messages]

shouldFallbackToJsonObject(error) ==
  /\ error.isError
  /\ LET message == ToLowerCase(error.message)
     IN \/ Includes(message, <<"json_schema">>)
        \/ Includes(message, <<"response_format">>)
        \/ Includes(message, <<"not supported">>)
        \/ Includes(message, <<"unsupported">>)

SchemaParse(schema, j) ==
  CASE schema = "metadataSchema" -> metadataSchema(j)
    [] schema = "coverageSchema" -> coverageSchema(j)
    [] schema = "questionDraftSchema" -> questionDraftSchema(j)
    [] schema = "critiqueSchema" -> critiqueSchema(j)
    [] schema = "finalQuizSchema" -> finalQuizSchema(j)
    [] schema = "gradeSchema" -> gradeSchema(j)
    [] schema = "chatReplySchema" -> chatReplySchema(j)
    [] OTHER -> None

\* a completeJson that answers a missing credential with the fallback value
completeJsonStartFallbackWithoutKey(c, name, schema, messages, fallbackValue) ==
  LET base == [NoCall EXCEPT !.name = name, !.schema = schema, !.messages = messages,
                             !.keyAtStart = env.OPENAI_API_KEY]
  IN IF c.mockMode \/ ~c.client \/ ~env.OPENAI_API_KEY
     THEN [base EXCEPT !.status = "returned", !.fallbackUsed = TRUE, !.value = Some(fallbackValue)]
     ELSE [base EXCEPT !.status = "strict",
                       !.requests = <<StrictRequest(schemaCounter, messages)>>]

\* a completeJson that checks the credential before the offline switch
completeJsonStartKeyFirst(c, name, schema, messages, fallbackValue) ==
  LET base == [NoCall EXCEPT !.name = name, !.schema = schema, !.messages = messages,
                             !.keyAtStart = env.OPENAI_API_KEY]
  IN IF ~env.OPENAI_API_KEY
     THEN [base EXCEPT !.status = "threw", !.error = Some(MissingKeyError)]
     ELSE IF c.mockMode \/ ~c.client
     THEN [base EXCEPT !.status = "returned", !.fallbackUsed = TRUE, !.value = Some(fallbackValue)]
     ELSE [base EXCEPT !.status = "strict",
                       !.requests = <<StrictRequest(schemaCounter, messages)>>]

\* completeJson up to its first suspension: offline check, client check,
\* credential check, then the strict json_schema request
completeJsonStart(c, name, schema, messages, fallbackValue) ==
  LET base == [NoCall EXCEPT !.name = name, !.schema = schema, !.messages = messages,
                             !.keyAtStart = env.OPENAI_API_KEY]
  IN IF c.mockMode
     THEN [base EXCEPT !.status = "returned", !.fallbackUsed = TRUE, !.value = Some(fallbackValue)]
     ELSE IF ~c.client
     THEN [base EXCEPT !.status = "returned", !.fallbackUsed = TRUE, !.value = Some(fallbackValue)]
     ELSE IF ~env.OPENAI_API_KEY
     THEN [base EXCEPT !.status = "threw", !.error = Some(MissingKeyError)]
     ELSE [base EXCEPT !.status = "strict",
                       !.requests = <<StrictRequest(schemaCounter, messages)>>]

\* a completeJson that hands back the parsed reply without validating it
completeJsonFinishUnvalidated(cl, reply) ==
  IF reply.content = "empty"
  THEN [cl EXCEPT !.status = "threw", !.error = Some(EmptyResponseError)]
  ELSE IF reply.content = "not_json"
  THEN [cl EXCEPT !.status = "threw", !.error = Some(JsonSyntaxError)]
  ELSE LET parsed == SchemaParse(cl.schema, reply.json[1])
       IN [cl EXCEPT !.status = "returned", !.value = IF IsSome(parsed) THEN parsed ELSE reply.json]

\* completeJson once a completion has arrived: content check, JSON.parse, schema.parse
completeJsonFinish(cl, reply) ==
  IF reply.content = "empty"
  THEN [cl EXCEPT !.status = "threw", !.error = Some(EmptyResponseError)]
  ELSE IF reply.content = "not_json"
  THEN [cl EXCEPT !.status = "threw", !.error = Some(JsonSyntaxError)]
  ELSE LET parsed == SchemaParse(cl.schema, reply.json[1])
       IN IF IsSome(parsed)
          THEN [cl EXCEPT !.status = "returned", !.value = parsed]
          ELSE [cl EXCEPT !.status = "threw", !.error = Some(ZodError)]

\* a catch block that retries with json_object whatever the error
completeJsonOnStrictErrorAlwaysRetries(cl, error) ==
  [cl EXCEPT !.status = "loose", !.firstError = Some(error),
             !.requests = Append(cl.requests, LooseRequest(cl.messages))]

\* the catch block around the strict request
completeJsonOnStrictError(cl, error) ==
  IF ~shouldFallbackToJsonObject(error)
  THEN [cl EXCEPT !.status = "threw", !.error = Some(error), !.firstError = Some(error)]
  ELSE [cl EXCEPT !.status = "loose", !.firstError = Some(error),
                  !.requests = Append(cl.requests, LooseRequest(cl.messages))]

\* a json_object request that is sent again when it is rejected
completeJsonOnLooseErrorRetries(cl, error) ==
  [cl EXCEPT !.requests = Append(cl.requests, LooseRequest(cl.messages))]

\* a rejection of the json_object request is not caught
completeJsonOnLooseError(cl, error) ==
  [cl EXCEPT !.status = "threw", !.error = Some(error)]

\* completeJson resumed by the provider's answer to the request in flight
completeJsonResume(cl, reply) ==
  IF reply.k = "completion" THEN completeJsonFinish(cl, reply)
  ELSE IF cl.status = "strict" THEN completeJsonOnStrictError(cl, reply.error[1])
  ELSE completeJsonOnLooseError(cl, reply.error[1])

CallEvents(cl) ==
  <<<<"start", cl.name>>>>
  \o (IF cl.status = "returned" THEN <<<<"return", cl.name>>>>
      ELSE IF cl.status = "threw" THEN <<<<"throw", cl.name>>>>
      ELSE <<>>)

\* the caller invokes llm.completeJson(messages, schema, fallbackFactory)
BeginCall(c, name, schema, messages, fallbackValue) ==
  LET started == completeJsonStart(c, name, schema, messages, fallbackValue)
  IN /\ call' = started
     /\ schemaCounter' = schemaCounter + Len(started.requests)
     /\ providerRequests' = providerRequests + Len(started.requests)
     /\ runRequests' = runRequests + Len(started.requests)
     /\ trace' = trace \o CallEvents(started)

\* ------------------------------------------------------------------------
\* The provider: what a chat.completions.create call may come back with
\* ------------------------------------------------------------------------
ProviderErrors ==
  { MakeError(<<"400 Invalid parameter: ", "Response_Format", " of type ", "JSON_SCHEMA">>),
    MakeError(<<"401 Incorrect API key provided">>),
    [isError |-> FALSE, message |-> <<"unsupported">>] }

ErrorReply(error) == [k |-> "error", error |-> Some(error), content |-> "none", json |-> None]

EmptyReply == [k |-> "completion", error |-> None, content |-> "empty", json |-> None]

NotJsonReply == [k |-> "completion", error |-> None, content |-> "not_json", json |-> None]

JsonReply(j) == [k |-> "completion", error |-> None, content |-> "json", json |-> Some(j)]

StrObj3(k1, v1, k2, v2, k3, v3) ==
  JObj(<<Prop(k1, JStr(v1)), Prop(k2, JStr(v2)), Prop(k3, JStr(v3))>>)

ValidMetadataJsons ==
  { StrObj3("title", <<"G title">>, "topic", <<"G topic">>, "description", <<"G description">>),
    StrObj3("title", <<>>, "topic", <<>>, "description", <<>>) }

InvalidMetadataJsons ==
  { JObj(<<Prop("title", JStr(<<"G title">>)), Prop("topic", JNum(3))>>) }

JStrs(list) == JArr([i \in 1..Len(list) |-> JStr(<<list[i]>>)])

CoverageJson(topic, goals, concepts, misconceptions) ==
  JObj(<<Prop("topic", JStr(topic)), Prop("learningGoals", goals), Prop("concepts", concepts),
         Prop("misconceptions", misconceptions)>>)

ValidCoverageJsons ==
  { CoverageJson(<<"G coverage topic">>, JStrs(<<"g1">>),
                 JArr(<<JObj(<<Prop("concept", JStr(<<"c1">>))>>), JStr(<<" ", "c2", " ">>), JNum(3)>>),
                 JStrs(<<"m1">>)),
    CoverageJson(<<>>, JStrs(<<"g1", "g2">>),
                 JStrs(<<"c1", "c2", "c3", "c4", "c5", "c6">>), JStrs(<<"m1", "m2", "m3">>)) }

InvalidCoverageJsons ==
  { CoverageJson(<<"G coverage topic">>, JStrs(<<"g1">>),
                 JArr(<<JStr(<<"c1">>), JStr(<<" ">>), JObj(<<>>), JNull, JStr(<<"c2">>)>>),
                 JStrs(<<"m1">>)) }

QuestionJson(type, prompt, extra) ==
  JObj(<<Prop("type", JStr(<<type>>)), Prop("prompt", JStr(<<prompt>>))>> \o extra)

McExtra == <<Prop("choices", JStrs(<<"x", "y">>)), Prop("correctChoiceIndex", JNum(1))>>

OeExtra == <<Prop("expectedAnswer", JStr(<<"e">>)), Prop("explanation", JStr(<<"why">>))>>

ValidDraftJsons ==
  { JObj(<<Prop("title", JStr(<<"D title">>)),
           Prop("questions", JArr(<<QuestionJson("multiple_choice", "dq1", McExtra)>>))>>) }

InvalidDraftJsons ==
  { JObj(<<Prop("title", JStr(<<"D title">>)), Prop("questions", JArr(<<>>))>>) }

ValidCritiqueJsons ==
  { JObj(<<Prop("issues", JStrs(<<>>)), Prop("strengths", JStrs(<<"s1">>)),
           Prop("revisions", JStrs(<<"r1">>))>>) }

InvalidCritiqueJsons ==
  { JObj(<<Prop("issues", JStrs(<<>>)), Prop("strengths", JStrs(<<"s1">>))>>) }

FinalJson(questions) ==
  JObj(<<Prop("title", JStr(<<"F title">>)), Prop("topic", JStr(<<"F topic">>)),
         Prop("summary", JStr(<<"F summary">>)), Prop("questions", JArr(questions))>>)

ValidFinalJsons ==
  { FinalJson(<<QuestionJson("open_ended", "fq1", OeExtra)>>),
    FinalJson(<<QuestionJson("multiple_choice", "fq1", McExtra),
                QuestionJson("open_ended", "fq2", OeExtra)>>) }

InvalidFinalJsons ==
  { FinalJson(<<QuestionJson("essay", "fq1", <<>>)>>) }

GradeJson(correctness, confidence) ==
  JObj(<<Prop("correctness", JStr(<<correctness>>)), Prop("confidence", confidence),
         Prop("explanation", JStr(<<"G explanation">>)), Prop("followup", JStr(<<"G followup">>))>>)

ValidGradeJsons == { GradeJson("incorrect", JNum(1)), GradeJson("partially_correct", JHalf(0)) }

InvalidGradeJsons == { GradeJson("correct", JNum(2)), GradeJson("wrong", JNum(0)) }

ValidChatJsons == { JObj(<<Prop("reply", JStr(<<" ", "G reply", " ">>))>>) }

InvalidChatJsons == { JObj(<<Prop("reply", JNull)>>) }

\* replies that conform to the schema asked for
ValidJsons(schema) ==
  CASE schema = "metadataSchema" -> ValidMetadataJsons
    [] schema = "coverageSchema" -> ValidCoverageJsons
    [] schema = "questionDraftSchema" -> ValidDraftJsons
    [] schema = "critiqueSchema" -> ValidCritiqueJsons
    [] schema = "finalQuizSchema" -> ValidFinalJsons
    [] schema = "gradeSchema" -> ValidGradeJsons
    [] schema = "chatReplySchema" -> ValidChatJsons
    [] OTHER -> {}

\* replies that are JSON but break the schema asked for
InvalidJsons(schema) ==
  CASE schema = "metadataSchema" -> InvalidMetadataJsons
    [] schema = "coverageSchema" -> InvalidCoverageJsons
    [] schema = "questionDraftSchema" -> InvalidDraftJsons
    [] schema = "critiqueSchema" -> InvalidCritiqueJsons
    [] schema = "finalQuizSchema" -> InvalidFinalJsons
    [] schema = "gradeSchema" -> InvalidGradeJsons
    [] schema = "chatReplySchema" -> InvalidChatJsons
    [] OTHER -> {}

JsonCandidates(schema) == ValidJsons(schema) \cup InvalidJsons(schema)

Completions(schema) == {EmptyReply, NotJsonReply} \cup {JsonReply(j) : j \in JsonCandidates(schema)}

ErrorReplies == {ErrorReply(error) : error \in ProviderErrors}

\* ------------------------------------------------------------------------
\* generateQuizIteratively (quiz-generator.ts)
\* ------------------------------------------------------------------------
\* Boolean(value)
JsTruthy(j) ==
  CASE j.k = "boolean" -> j.v[1]
    [] j.k = "string" -> j.v # <<>>
    [] j.k = "number" -> j.v # <<0>>
    [] j.k \in {"object", "array"} -> TRUE
    [] OTHER -> FALSE

\* input.title?.trim(); undefined and "" are both falsy and both become <<>>
OptTrim(o) == IF IsSome(o) THEN Trim(o[1]) ELSE <<>>

\* a || b on strings
OrElse(a, b) == IF a # <<>> THEN a ELSE b

providedQuestionCountOf(questionCount) ==
  IF TypeOf(questionCount) = "number" /\ NumberIsFinite(questionCount)
  THEN Some(clampQuestionCount(questionCount))
  ELSE None

MaxFocusPrompts == 12

RECURSIVE FocusBullets(_)
FocusBullets(prompts) ==
  IF prompts = <<>> THEN <<>>
  ELSE <<"- ">> \o Head(prompts) \o (IF Len(prompts) > 1 THEN <<"\n">> ELSE <<>>)
       \o FocusBullets(Tail(prompts))

focusGuidanceOf(focusPrompts) ==
  IF Len(focusPrompts) > 0
  THEN <<"\nPriority focus areas (questions the learner has struggled with):\n">>
       \o FocusBullets(focusPrompts)
  ELSE <<>>

\* a focus list that keeps every coerced entry
focusPromptsOfUncapped(input) == coerceStringArrayItems(input.focusPrompts)

\* coerceStringArrayItems(input.focusPrompts).slice(0, 12)
focusPromptsOf(input) == SliceTo(coerceStringArrayItems(input.focusPrompts), MaxFocusPrompts)

\* the locals computed before the first pass
PipelineLocals(input) ==
  LET focusPrompts == focusPromptsOf(input)
  IN [input |-> input,
      providedQuestionCount |-> providedQuestionCountOf(input.questionCount),
      autoMetadata |-> JsTruthy(input.autoMetadata),
      userTitle |-> OptTrim(input.title),
      userTopic |-> OptTrim(input.topic),
      userDescription |-> OptTrim(input.description),
      sourcePacket |-> buildSourcePacket(input.sources),
      focusPrompts |-> focusPrompts,
      focusGuidance |-> focusGuidanceOf(focusPrompts)]

Messages(systemText, userContent) ==
  <<[role |-> "system", content |-> [text |-> <<systemText>>]],
    [role |-> "user", content |-> userContent]>>

metadataMessages(l) ==
  Messages("Generate concise quiz metadata from source material. Return JSON only.",
           [pass |-> "metadata", sourcePacket |-> l.sourcePacket, focusGuidance |-> l.focusGuidance])

metadataFallback ==
  [title |-> <<"Self-Learning Quiz">>,
   topic |-> <<"Self-Learning">>,
   description |-> <<"A mixed quiz generated from your uploaded sources.">>]

\* a resolution that uses the generated values whatever autoMetadata says
resolveMetadataIgnoresSwitch(l, generated) ==
  LET resolvedTopic == OrElse(OrElse(l.userTopic, generated.topic), <<"Self-Learning Quiz">>)
      resolvedTitle == OrElse(OrElse(l.userTitle, generated.title), resolvedTopic \o <<" Quiz">>)
      resolvedDescription ==
        OrElse(OrElse(l.userDescription, generated.description),
               <<"A mixed quiz generated from the source content.">>)
  IN [title |-> resolvedTitle, topic |-> resolvedTopic, description |-> resolvedDescription]

resolveMetadata(l, generated) ==
  LET resolvedTopic ==
        OrElse(OrElse(l.userTopic, IF l.autoMetadata THEN generated.topic ELSE <<>>),
               <<"Self-Learning Quiz">>)
      resolvedTitle ==
        OrElse(OrElse(l.userTitle, IF l.autoMetadata THEN generated.title ELSE <<>>),
               resolvedTopic \o <<" Quiz">>)
      resolvedDescription ==
        OrElse(OrElse(l.userDescription, IF l.autoMetadata THEN generated.description ELSE <<>>),
               <<"A mixed quiz generated from the source content.">>)
  IN [title |-> resolvedTitle, topic |-> resolvedTopic, description |-> resolvedDescription]

coverageMessages(l) ==
  Messages("You design pedagogically sound quizzes. Return JSON only.",
           [pass |-> "coverage", sourcePacket |-> l.sourcePacket, focusGuidance |-> l.focusGuidance])

coverageFallback(res) ==
  [topic |-> res.topic,
   learningGoals |-> << <<"Understand the core topic">> >>,
   concepts |-> << <<"Core idea">>, <<"Key workflow">>, <<"Common pitfall">> >>,
   misconceptions |-> << <<"Confusing implementation details with concepts">> >>]

coverageForSizing(cov) ==
  [concepts |-> coerceStringArrayItems(StringsAsJson(cov.concepts)),
   misconceptions |-> coerceStringArrayItems(StringsAsJson(cov.misconceptions)),
   learningGoals |-> coerceStringArrayItems(StringsAsJson(cov.learningGoals))]

\* providedQuestionCount ?? chooseQuestionCountFromSources(...)
resolveQuestionCount(l, cov) ==
  IF IsSome(l.providedQuestionCount)
  THEN l.providedQuestionCount[1]
  ELSE chooseQuestionCountFromSources(l.input.sources, coverageForSizing(cov))

draftMessages(l, cov, count) ==
  Messages("Draft mixed question quizzes and return JSON only.",
           [pass |-> "draft", questionCount |-> count, blueprint |-> cov,
            focusGuidance |-> l.focusGuidance])

draftFallback(cov, res, count) == fallbackQuiz(OrElse(cov.topic, res.topic), res.title, count)

critiqueMessages(l, cov, drf) ==
  Messages("Critique draft quiz quality. Return JSON only.",
           [pass |-> "critique", draft |-> drf, blueprint |-> cov, focusGuidance |-> l.focusGuidance])

critiqueFallback ==
  [issues |-> <<>>,
   strengths |-> << <<"Covers major concepts">> >>,
   revisions |-> << <<"Increase specificity in open-ended prompts">> >>]

\* a final prompt that takes its question count from the draft
finalMessagesCountFromDraft(crit, drf, count) ==
  Messages("Revise and finalize the quiz. Return JSON only.",
           [pass |-> "final", revisions |-> crit.revisions, questionCount |-> Len(drf.questions),
            draft |-> drf])

finalMessages(crit, drf, count) ==
  Messages("Revise and finalize the quiz. Return JSON only.",
           [pass |-> "final", revisions |-> crit.revisions, questionCount |-> count, draft |-> drf])

finalFallback(cov, res, drf, count) ==
  [fallbackQuiz(OrElse(cov.topic, res.topic), OrElse(drf.title, res.title), count)
     EXCEPT !.topic = OrElse(cov.topic, res.topic)]

\* an assembly that keeps the final pass's own title, topic and summary
assembleQuizKeepsFinal(final, res) == final

\* { ...finalQuiz, title: resolvedTitle, topic: resolvedTopic, summary: resolvedDescription }
assembleQuiz(final, res) ==
  [final EXCEPT !.title = res.title, !.topic = res.topic, !.summary = res.description]

runMetadata(l, generated, res, cov, crit, count, e) ==
  [resolvedMetadata |->
     [title |-> res.title, topic |-> res.topic, description |-> res.description,
      autoMetadata |-> l.autoMetadata, questionCount |-> count,
      autoQuestionCount |-> ~IsSome(l.providedQuestionCount),
      focusedTroublePrompts |-> l.focusPrompts],
   generatedMetadata |-> generated,
   coverage |-> cov,
   critique |-> crit,
   generationMode |-> IF e.MOCK_LLM THEN "mock" ELSE "live"]

\* the order in which the function body awaits its five completeJson calls
PassOrder == <<"metadata", "coverage", "draft", "critique", "final">>

PassIndex(name) == CHOOSE i \in 1..Len(PassOrder) : PassOrder[i] = name

\* ------------------------------------------------------------------------
\* Inputs
\* ------------------------------------------------------------------------
SmallContent == [len |-> 500, head |-> "notes", rest |-> ""]

LongContent == [len |-> 12500, head |-> "talk", rest |-> "talk-tail"]

SourcePool ==
  { [origin |-> "markdown", title |-> <<"notes.md">>, content |-> SmallContent],
    [origin |-> "youtube", title |-> <<"YouTube Transcript (v1)">>, content |-> LongContent] }

SourceLists == UNION {[1..n -> SourcePool] : n \in 1..MaxSources}

UserTexts(word) == {None, Some(<<" ">>), Some(<<" ", word, " ">>)}

QuestionCountInputs == {JUndef, JNaN, JNum(3), JHalf(7), JNum(25)}

\* two entries more than the pipeline keeps, one of them blank
ManyFocusPrompts ==
  JArr([i \in 1..(MaxFocusPrompts + 2) |->
          IF i = 2 THEN JStr(<<" ">>) ELSE JStr(<<"missed #", ToString(i)>>)])

FocusInputs ==
  {JUndef, JArr(<<JStr(<<" ", "missed one">>), JObj(<<Prop("text", JStr(<<"missed two">>))>>)>>),
   ManyFocusPrompts}

DefaultInput ==
  [sources |-> <<CHOOSE src \in SourcePool : src.origin = "markdown">>,
   title |-> None, topic |-> None, description |-> None,
   autoMetadata |-> JUndef, questionCount |-> JUndef, focusPrompts |-> JUndef]

\* every combination of the inputs
AllGenerateInputs ==
  [sources : SourceLists, title : UserTexts("T"), topic : UserTexts("P"),
   description : {None, Some(<<"D">>)}, autoMetadata : {JUndef, JBool(TRUE)},
   questionCount : QuestionCountInputs, focusPrompts : FocusInputs]

\* the inputs of the live runs: each group of inputs that feeds one decision
\* of the pipeline varies in full while the others stay at their defaults
GenerateInputs ==
  {[DefaultInput EXCEPT !.title = ti, !.topic = to, !.description = de, !.autoMetadata = au] :
     ti \in UserTexts("T"), to \in UserTexts("P"), de \in {None, Some(<<"D">>)},
     au \in {JUndef, JBool(TRUE)}}
  \cup {[DefaultInput EXCEPT !.sources = so, !.questionCount = qc] :
     so \in SourceLists, qc \in QuestionCountInputs}
  \cup {[DefaultInput EXCEPT !.focusPrompts = fp, !.autoMetadata = au] :
     fp \in FocusInputs, au \in {JUndef, JBool(TRUE)}}

\* ------------------------------------------------------------------------
\* gradeOpenEndedAnswer (open-ended-grader.ts)
\* ------------------------------------------------------------------------
ExpectedPrefixLength == 12

\* value ?? "N/A"
OrNA(o) == IF IsSome(o) THEN o[1] ELSE <<"N/A">>

gradeMessages(input) ==
  Messages("You are a strict but supportive quiz grader. Return JSON only.",
           [pass |-> "grade", prompt |-> input.prompt, expectedAnswer |-> OrNA(input.expectedAnswer),
            rubric |-> OrNA(input.rubric), userAnswer |-> input.userAnswer])

\* a fallback grade that looks for the whole expected answer
gradeFallbackWholeExpected(input) ==
  LET normalizedExpected == ToLowerCase(IF IsSome(input.expectedAnswer) THEN input.expectedAnswer[1] ELSE <<>>)
      normalizedUser == ToLowerCase(input.userAnswer)
      match == normalizedExpected # <<>> /\ Includes(normalizedUser, normalizedExpected)
  IN [correctness |-> IF match THEN "correct" ELSE "partially_correct",
      confidence |-> IF match THEN 80 ELSE 55,
      explanation |-> IF match
                      THEN <<"Your answer aligns with the expected concept.">>
                      ELSE <<"Your answer is on the right track but misses key expected details.">>,
      followup |-> <<"Revisit the source and include one concrete example in your next attempt.">>]

gradeFallback(input) ==
  LET normalizedExpected == ToLowerCase(IF IsSome(input.expectedAnswer) THEN input.expectedAnswer[1] ELSE <<>>)
      normalizedUser == ToLowerCase(input.userAnswer)
      match == normalizedExpected # <<>>
               /\ Includes(normalizedUser, SliceTo(normalizedExpected, ExpectedPrefixLength))
  IN [correctness |-> IF match THEN "correct" ELSE "partially_correct",
      confidence |-> IF match THEN 80 ELSE 55,
      explanation |-> IF match
                      THEN <<"Your answer aligns with the expected concept.">>
                      ELSE <<"Your answer is on the right track but misses key expected details.">>,
      followup |-> <<"Revisit the source and include one concrete example in your next attempt.">>]

ExpectedText == <<"E", "v", "e", "n", "t", "u", "A", "l", " ", "c", "o", "n", "s", "i">>

GradeInputs ==
  [prompt : {<<"Explain eventual consistency.">>},
   expectedAnswer : {None, Some(<<>>), Some(ExpectedText)},
   rubric : {None, Some(<<"rubric">>)},
   userAnswer : { <<"I", "t", " ", "E", "v", "e", "n", "t", "u", "a", "l", " ", "c", "o", "n", "!">>,
                  <<"e", "v", "e", "n", "t", "u", "a", "l", " ", "c", "o">>,
                  <<"n", "o">> }]

\* ------------------------------------------------------------------------
\* generateQuizChatReply (quiz-chat.ts)
\* ------------------------------------------------------------------------
\* clip(value, maxLength), lengths counted in tokens
clip(value, maxLength) ==
  LET normalized == Trim(value)
  IN IF Len(normalized) <= maxLength THEN normalized
     ELSE SubSeq(normalized, 1, maxLength) \o <<"...">>

\* a lookup that keeps the first answer of the list for that question
latestAnswerKeepsFirst(answers, id) ==
  LET hits == {i \in 1..Len(answers) : answers[i].questionId = id}
  IN IF hits = {} THEN None
     ELSE Some(answers[CHOOSE i \in hits : \A h \in hits : i <= h])

\* latestByQuestion.get(id): the last answer of the list for that question
latestAnswer(answers, id) ==
  LET hits == {i \in 1..Len(answers) : answers[i].questionId = id}
  IN IF hits = {} THEN None
     ELSE Some(answers[CHOOSE i \in hits : \A h \in hits : h <= i])

buildQuestionHistory(questions, answers) ==
  [i \in 1..Len(questions) |->
     LET latest == latestAnswer(answers, questions[i].id)
     IN IF ~IsSome(latest)
        THEN [index |-> i, type |-> questions[i].type, prompt |-> clip(questions[i].prompt, 260),
              status |-> "unanswered", answer |-> <<>>, result |-> "", feedback |-> <<>>]
        ELSE [index |-> i, type |-> questions[i].type, prompt |-> clip(questions[i].prompt, 260),
              status |-> "answered", answer |-> clip(latest[1].userAnswer, 220),
              result |-> latest[1].correctness, feedback |-> clip(OrNA(latest[1].feedback), 220)]]

currentQuestionOf(input) ==
  LET byId == {i \in 1..Len(input.quiz.questions) :
                 IsSome(input.questionId) /\ input.questionId[1] # <<>>
                 /\ input.quiz.questions[i].id = input.questionId[1]}
  IN IF byId # {}
     THEN Some(input.quiz.questions[CHOOSE i \in byId : \A h \in byId : i <= h])
     ELSE IF IsSome(input.questionIndex) /\ input.questionIndex[1] + 1 \in 1..Len(input.quiz.questions)
     THEN Some(input.quiz.questions[input.questionIndex[1] + 1])
     ELSE None

buildQuizChatPrompt(input) ==
  [pass |-> "chat",
   title |-> input.quiz.title,
   topic |-> OrElse(input.quiz.topic, <<"General">>),
   summary |-> clip(OrNA(input.quiz.summary), 300),
   currentQuestion |-> IF IsSome(currentQuestionOf(input))
                       THEN clip(currentQuestionOf(input)[1].prompt, 300)
                       ELSE <<"unavailable">>,
   history |-> buildQuestionHistory(input.quiz.questions, input.answers),
   message |-> input.message]

chatMessages(input) ==
  Messages("You are a quiz coach helping learners build intuition.", buildQuizChatPrompt(input))

chatFallback(input) ==
  LET answeredCount == Cardinality({input.answers[i].questionId : i \in 1..Len(input.answers)})
  IN [reply |-> <<"Let's review this together. So far you've answered ", ToString(answeredCount),
                  " of ", ToString(Len(input.quiz.questions)), " questions.">>]

ChatQuiz ==
  [title |-> <<"Data Systems Quiz">>, topic |-> <<"Data systems">>, summary |-> Some(<<"Foundations review">>),
   questions |-> << [id |-> <<"q1">>, type |-> "multiple_choice", prompt |-> <<"What does ACID stand for?">>],
                    [id |-> <<"q2">>, type |-> "open_ended", prompt |-> <<"Explain eventual consistency.">>] >>]

ChatAnswer(questionId, text, correctness) ==
  [questionId |-> <<questionId>>, userAnswer |-> <<text>>, correctness |-> correctness,
   feedback |-> IF correctness = "correct" THEN Some(<<"Correct.">>) ELSE None]

ChatInputs ==
  [quiz : {ChatQuiz},
   answers : { <<>>,
               <<ChatAnswer("q1", "1", "incorrect"), ChatAnswer("q1", "0", "correct")>>,
               <<ChatAnswer("q2", "it converges", "partially_correct"), ChatAnswer("q1", "0", "correct")>> },
   message : {<<"Can you compare these concepts?">>},
   questionId : {None, Some(<<"q2">>)},
   questionIndex : {None, Some(0)}]

\* ------------------------------------------------------------------------
\* getTroubleQuestionCandidates (analytics.ts)
\* ------------------------------------------------------------------------
\* where: { score: { lt: 0.5 } }
ScoreBelowHalf(score) ==
  score.k = "number" /\ (IF Len(score.v) = 1 THEN score.v[1] <= 0 ELSE score.v[1] < 0)

\* the record made for the first missed answer of a question; a question is
\* identified by its place in the question table
newCandidate(answer, questions) ==
  LET question == questions[answer.questionId]
  IN [questionId |-> answer.questionId, quizId |-> question.quizId, prompt |-> question.prompt,
      type |-> question.type, choicesJson |-> question.choicesJson,
      expectedAnswer |-> question.expectedAnswer, rubricJson |-> question.rubricJson,
      metadataJson |-> question.metadataJson, missCount |-> 1, lastMissedAt |-> answer.createdAt]

\* one turn of the loop over missedAnswers; grouped keeps the insertion order of the Map
groupMissedAnswer(grouped, answer, questions) ==
  LET hits == {i \in 1..Len(grouped) : grouped[i].questionId = answer.questionId}
  IN IF hits = {}
     THEN Append(grouped, newCandidate(answer, questions))
     ELSE LET i == CHOOSE h \in hits : TRUE
          IN [grouped EXCEPT ![i].missCount = @ + 1,
                             ![i].lastMissedAt = IF answer.createdAt > @ THEN answer.createdAt ELSE @]

RECURSIVE groupMissedAnswers(_, _, _)
groupMissedAnswers(grouped, missedAnswers, questions) ==
  IF missedAnswers = <<>> THEN grouped
  ELSE CHOOSE done \in
         {groupMissedAnswers(next, Tail(missedAnswers), questions) :
            next \in {groupMissedAnswer(grouped, Head(missedAnswers), questions)}} : TRUE

\* a comparator that ranks by missCount alone
troubleCandidateOrderByCountOnly(a, b) == b.missCount - a.missCount

\* the comparator handed to sort: negative when a goes before b
troubleCandidateOrder(a, b) ==
  IF b.missCount # a.missCount THEN b.missCount - a.missCount
  ELSE b.lastMissedAt - a.lastMissedAt

\* Array.prototype.sort: stable, elements that compare equal keep their order
sortCandidates(list) ==
  LET before(i, j) == \/ troubleCandidateOrder(list[i], list[j]) < 0
                      \/ troubleCandidateOrder(list[i], list[j]) = 0 /\ i < j
      place(i) == 1 + Cardinality({j \in 1..Len(list) : before(j, i)})
  IN [p \in 1..Len(list) |-> list[CHOOSE i \in 1..Len(list) : place(i) = p]]

\* answers come in whatever order findMany returns them
\* the grouped Map is built once, and its values are what sort is called on
getTroubleQuestionCandidates(answers, questions) ==
  LET missedAnswers == SelectSeq(answers, LAMBDA answer : ScoreBelowHalf(answer.score))
  IN CHOOSE sorted \in {sortCandidates(grouped) :
                          grouped \in {groupMissedAnswers(<<>>, missedAnswers, questions)}} : TRUE

\* ------------------------------------------------------------------------
\* POST /api/quizzes/generate (app.ts)
\* ------------------------------------------------------------------------
StoredSourceDocs ==
  << [id |-> <<"s1">>, origin |-> "markdown", title |-> Some(<<"notes.md">>), content |-> SmallContent],
     [id |-> <<"s2">>, origin |-> "youtube_transcript", title |-> None, content |-> LongContent] >>

toNormalizedSource(doc) ==
  [origin |-> IF doc.origin = "youtube" THEN "youtube" ELSE "markdown",
   title |-> IF IsSome(doc.title) THEN doc.title[1] ELSE <<"Untitled Source">>,
   content |-> doc.content]

toBoolean(input) ==
  CASE input.k = "boolean" -> input.v[1]
    [] input.k = "string" ->
         ToLowerCase(Trim(input.v)) \in {<<"1">>, <<"true">>, <<"yes">>, <<"on">>}
    [] OTHER -> FALSE

parseQuestionCount(input) ==
  IF TypeOf(input) # "number" \/ ~NumberIsFinite(input)
  THEN JUndef
  ELSE JNum(clampQuestionCount(input))

RequestBodies ==
  [sourceIds : {JUndef, JStr(<<"s1">>), JArr(<<>>), JArr(<<JStr(<<"s9">>)>>), JArr(<<JStr(<<"s1">>)>>),
                JArr(<<JStr(<<"s2">>), JStr(<<"s1">>)>>)},
   title : {None, Some(<<" ", "T", " ">>)},
   description : {None},
   topic : {None},
   autoMetadata : {JUndef, JStr(<<" ", "On">>)},
   questionCount : {JUndef, JStr(<<"8">>), JHalf(7)},
   difficulty : {JUndef}]

requestedSourceIds(body) ==
  IF body.sourceIds.k = "array" THEN [i \in 1..Len(body.sourceIds.v) |-> body.sourceIds.v[i].v] ELSE <<>>

\* db.sourceDocument.findMany({ where: { id: { in: sourceIds } } })
findManySources(store, sourceIds) ==
  SelectSeq(store, LAMBDA doc : \E i \in 1..Len(sourceIds) : sourceIds[i] = doc.id)

generateInputOf(body, sourceDocs) ==
  [sources |-> [i \in 1..Len(sourceDocs) |-> toNormalizedSource(sourceDocs[i])],
   title |-> body.title,
   description |-> body.description,
   topic |-> body.topic,
   autoMetadata |-> JBool(toBoolean(body.autoMetadata)),
   questionCount |-> parseQuestionCount(body.questionCount),
   focusPrompts |-> JUndef]

questionRow(quizId, index, question) ==
  [quizId |-> quizId,
   questionIndex |-> index,
   type |-> question.type,
   prompt |-> question.prompt,
   choicesJson |-> question.choices,
   expectedAnswer |-> question.expectedAnswer,
   rubricJson |-> IF IsSome(question.rubric) /\ question.rubric[1] # <<>> THEN question.rubric ELSE None,
   metadataJson |-> [explanation |-> question.explanation,
                     correctChoiceIndex |-> question.correctChoiceIndex]]

\* the transaction of saveQuizFromGeneratedPayload: one quiz row, one row per question
saveQuizFromGeneratedPayload(store, quiz, metadata, sourceDocs) ==
  LET id == Len(store.quizzes) + 1
  IN [store EXCEPT
        !.quizzes = Append(@, [id |-> id, title |-> quiz.title, topic |-> quiz.topic,
                               difficulty |-> "mixed", generationMetadata |-> metadata,
                               quizJson |-> quiz,
                               sources |-> [i \in 1..Len(sourceDocs) |-> sourceDocs[i].id]]),
        !.questions = @ \o [i \in 1..Len(quiz.questions) |-> questionRow(id, i - 1, quiz.questions[i])]]

\* the database before any quiz is generated; clock is the database's now()
EmptyStore ==
  [sources |-> StoredSourceDocs, quizzes |-> <<>>, questions |-> <<>>, attempts |-> <<>>,
   answers |-> <<>>, clock |-> 0]

\* error instanceof Error ? error.message : "Quiz generation failed."
generateErrorMessage(error) == IF error.isError THEN error.message ELSE <<"Quiz generation failed.">>

NoResult == [status |-> "none", value |-> None, error |-> None]

Returned(value) == [status |-> "returned", value |-> Some(value), error |-> None]

Rejected(error) == [status |-> "rejected", value |-> None, error |-> Some(error)]

\* a rejection that replaces the error of the failing pass by a generic one
RejectRunGeneric(error) ==
  /\ result' = Rejected(MakeError(<<"Quiz generation failed.">>))
  /\ pc' = "done"
  /\ response' = IF op.kind = "generate"
                 THEN Some([status |-> 500, error |-> Some(<<"Quiz generation failed.">>), quiz |-> None])
                 ELSE response

\* the handlers whose awaits are not inside a try block
UnguardedKinds == {"trouble", "answer"}

\* the answer of the framework's own error handler, when it has one for a
\* rejected handler promise: a 500 page, with the error's stack or without
FrameworkErrorResponses(error) ==
  {[status |-> 500, error |-> None, quiz |-> None],
   [status |-> 500, error |-> IF error.isError THEN Some(error.message) ELSE None, quiz |-> None]}

\* what the caller of generateQuizIteratively does with a rejection: the
\* generate handler catches it and answers 500; an unguarded handler's promise
\* rejects, and the framework either ignores it (no response is ever sent)
\* or answers with its own error page, depending on its version
RejectRun(error) ==
  /\ result' = Rejected(error)
  /\ pc' = "done"
  /\ response' \in
       IF op.kind = "generate"
       THEN {Some([status |-> 500, error |-> Some(generateErrorMessage(error)), quiz |-> None])}
       ELSE IF op.kind \in UnguardedKinds
       THEN {response} \cup {Some(page) : page \in FrameworkErrorResponses(error)}
       ELSE {response}

\* ------------------------------------------------------------------------
\* Actions
\* ------------------------------------------------------------------------
Init ==
  /\ env \in [MOCK_LLM : BOOLEAN, OPENAI_API_KEY : BOOLEAN]
  /\ schemaCounter = 0
  /\ providerRequests = 0
  /\ op = [kind |-> "none", input |-> <<>>, docs |-> <<>>]
  /\ pc = "idle"
  /\ llm = None
  /\ call = NoCall
  /\ trace = <<>>
  /\ locals = None
  /\ generatedMetadata = None
  /\ resolved = None
  /\ coverage = None
  /\ resolvedQuestionCount = None
  /\ heuristicConsulted = FALSE
  /\ draft = None
  /\ critique = None
  /\ finalQuiz = None
  /\ result = NoResult
  /\ db = EmptyStore
  /\ response = None
  /\ runRequests = 0
  /\ parked = <<>>

\* something outside the operation assigns process.env.MOCK_LLM or OPENAI_API_KEY
EnvChange ==
  /\ pc \notin {"idle", "done"}
  /\ \/ env' = [env EXCEPT !.MOCK_LLM = ~@]
     \/ env' = [env EXCEPT !.OPENAI_API_KEY = ~@]
  /\ UNCHANGED <<schemaCounter, providerRequests, op, pc, llm, call, trace, pipelineVars,
                 result, db, response>>
  /\ UNCHANGED <<runRequests, parked>>

\* generateQuizIteratively from its entry to the first await, the client built
StartPipeline(input) ==
  LET c == LlmJsonClient(env)
      l == PipelineLocals(input)
  IN /\ llm' = Some(c)
     /\ locals' = Some(l)
     /\ BeginCall(c, PassOrder[1], "metadataSchema", metadataMessages(l), metadataFallback)
     /\ pc' = "pipeline"
     /\ UNCHANGED <<generatedMetadata, resolved, coverage, resolvedQuestionCount,
                    heuristicConsulted, draft, critique, finalQuiz, result, db, response>>

\* generateQuizIteratively when new OpenAI(...) rejects the missing key
StartPipelineThrows(input) ==
  /\ ConstructorMayThrow(env)
  /\ locals' = Some(PipelineLocals(input))
  /\ RejectRun(OpenAIConstructorError)
  /\ UNCHANGED <<schemaCounter, providerRequests, llm, call, trace, generatedMetadata, resolved,
                 coverage, resolvedQuestionCount, heuristicConsulted, draft, critique, finalQuiz, db>>

\* a direct call of generateQuizIteratively (the tests, any in-process caller)
CallGenerate ==
  /\ pc = "idle"
  /\ \E input \in GenerateInputs :
       /\ op' = [kind |-> "direct", input |-> input, docs |-> <<>>]
       /\ StartPipeline(input)
  /\ UNCHANGED env
  /\ UNCHANGED parked

CallGenerateThrows ==
  /\ pc = "idle"
  /\ \E input \in GenerateInputs :
       /\ op' = [kind |-> "direct", input |-> input, docs |-> <<>>]
       /\ StartPipelineThrows(input)
  /\ UNCHANGED env
  /\ UNCHANGED <<runRequests, parked>>

\* a handler that looks the sources up whatever sourceIds holds
PostGenerateUnvalidated ==
  /\ pc = "idle"
  /\ \E body \in RequestBodies :
       op' = [kind |-> "generate", input |-> body, docs |-> <<>>]
  /\ pc' = "findMany"
  /\ UNCHANGED <<env, schemaCounter, providerRequests, llm, call, trace, pipelineVars,
                 result, db, response, runRequests, parked>>

\* the handler up to its first await: sourceIds validation
PostGenerate ==
  /\ pc = "idle"
  /\ \E body \in RequestBodies :
       /\ op' = [kind |-> "generate", input |-> body, docs |-> <<>>]
       /\ IF Len(requestedSourceIds(body)) = 0
          THEN /\ response' = Some([status |-> 400, error |-> Some(<<"sourceIds is required.">>), quiz |-> None])
               /\ pc' = "done"
          ELSE /\ response' = response
               /\ pc' = "findMany"
  /\ UNCHANGED <<env, schemaCounter, providerRequests, llm, call, trace, pipelineVars,
                 result, db>>
  /\ UNCHANGED <<runRequests, parked>>

\* findMany came back with no document: 404
FindManyEmpty ==
  /\ pc = "findMany"
  /\ findManySources(db.sources, requestedSourceIds(op.input)) = <<>>
  /\ response' = Some([status |-> 404, error |-> Some(<<"No sources found for sourceIds.">>), quiz |-> None])
  /\ pc' = "done"
  /\ UNCHANGED <<env, schemaCounter, providerRequests, op, llm, call, trace, pipelineVars,
                 result, db>>
  /\ UNCHANGED <<runRequests, parked>>

\* findMany came back with documents: the pipeline starts
FindManyDone ==
  /\ pc = "findMany"
  /\ LET docs == findManySources(db.sources, requestedSourceIds(op.input))
     IN /\ docs # <<>>
        /\ op' = [op EXCEPT !.docs = docs]
        /\ StartPipeline(generateInputOf(op.input, docs))
  /\ UNCHANGED env
  /\ UNCHANGED parked

FindManyDoneThrows ==
  /\ pc = "findMany"
  /\ LET docs == findManySources(db.sources, requestedSourceIds(op.input))
     IN /\ docs # <<>>
        /\ op' = [op EXCEPT !.docs = docs]
        /\ StartPipelineThrows(generateInputOf(op.input, docs))
  /\ UNCHANGED env
  /\ UNCHANGED <<runRequests, parked>>

\* the provider answers the json_schema request
StrictReply ==
  /\ call.status = "strict"
  /\ \E reply \in Completions(call.schema) \cup ErrorReplies :
       /\ call' = [completeJsonResume(call, reply) EXCEPT !.reply = Some(reply)]
       /\ call'.status # "loose"
  /\ trace' = trace \o Tail(CallEvents(call'))
  /\ UNCHANGED <<env, schemaCounter, providerRequests, op, pc, llm, pipelineVars,
                 result, db, response>>
  /\ UNCHANGED <<runRequests, parked>>

\* the provider rejects the json_schema request and json_object is tried
StrictReplyDowngrade ==
  /\ call.status = "strict"
  /\ \E reply \in ErrorReplies :
       /\ call' = [completeJsonResume(call, reply) EXCEPT !.reply = Some(reply)]
       /\ call'.status = "loose"
  /\ providerRequests' = providerRequests + (Len(call'.requests) - Len(call.requests))
  /\ runRequests' = runRequests + (Len(call'.requests) - Len(call.requests))
  /\ trace' = trace \o Tail(CallEvents(call'))
  /\ UNCHANGED <<env, schemaCounter, op, pc, llm, pipelineVars, result, db, response>>
  /\ UNCHANGED parked

\* the provider answers the json_object request
LooseReply ==
  /\ call.status = "loose"
  /\ \E reply \in Completions(call.schema) \cup ErrorReplies :
       call' = [completeJsonResume(call, reply) EXCEPT !.reply = Some(reply)]
  /\ trace' = trace \o Tail(CallEvents(call'))
  /\ UNCHANGED <<env, schemaCounter, providerRequests, op, pc, llm, pipelineVars,
                 result, db, response>>
  /\ UNCHANGED <<runRequests, parked>>

\* a completeJson call of the pipeline threw: the run rejects, the handler answers 500
PassFailed ==
  /\ pc = "pipeline"
  /\ call.status = "threw"
  /\ RejectRun(call.error[1])
  /\ UNCHANGED <<env, schemaCounter, providerRequests, op, llm, call, trace,
                 pipelineVars, db>>
  /\ UNCHANGED <<runRequests, parked>>

\* pass 1 returned: metadata resolution, then the coverage pass starts
AfterMetadata ==
  /\ pc = "pipeline"
  /\ call.status = "returned"
  /\ call.name = PassOrder[1]
  /\ LET generated == call.value[1]
         res == resolveMetadata(locals[1], generated)
     IN /\ generatedMetadata' = Some(generated)
        /\ resolved' = Some(res)
        /\ BeginCall(llm[1], PassOrder[2], "coverageSchema", coverageMessages(locals[1]),
                     coverageFallback(res))
  /\ UNCHANGED <<env, op, pc, llm, locals, coverage, resolvedQuestionCount,
                 heuristicConsulted, draft, critique, finalQuiz, result, db, response>>
  /\ UNCHANGED parked

\* pass 2 returned: the sizing decision, then the draft pass starts
AfterCoverage ==
  /\ pc = "pipeline"
  /\ call.status = "returned"
  /\ call.name = PassOrder[2]
  /\ LET cov == call.value[1]
     IN \E count \in {resolveQuestionCount(locals[1], cov)} :
          /\ coverage' = Some(cov)
          /\ resolvedQuestionCount' = Some(count)
          /\ heuristicConsulted' = ~IsSome(locals[1].providedQuestionCount)
          /\ BeginCall(llm[1], PassOrder[3], "questionDraftSchema",
                       draftMessages(locals[1], cov, count), draftFallback(cov, resolved[1], count))
  /\ UNCHANGED <<env, op, pc, llm, locals, generatedMetadata, resolved, draft,
                 critique, finalQuiz, result, db, response>>
  /\ UNCHANGED parked

\* a pipeline that goes from the draft straight to the final revision
AfterDraftSkipsCritique ==
  /\ pc = "pipeline"
  /\ call.status = "returned"
  /\ call.name = PassOrder[3]
  /\ LET drf == call.value[1]
     IN /\ draft' = Some(drf)
        /\ critique' = Some(critiqueFallback)
        /\ BeginCall(llm[1], PassOrder[5], "finalQuizSchema",
                     finalMessages(critiqueFallback, drf, resolvedQuestionCount[1]),
                     finalFallback(coverage[1], resolved[1], drf, resolvedQuestionCount[1]))
  /\ UNCHANGED <<env, op, pc, llm, locals, generatedMetadata, resolved, coverage,
                 resolvedQuestionCount, heuristicConsulted, finalQuiz, result, db, response>>
  /\ UNCHANGED parked

\* pass 3 returned: the critique pass starts
AfterDraft ==
  /\ pc = "pipeline"
  /\ call.status = "returned"
  /\ call.name = PassOrder[3]
  /\ LET drf == call.value[1]
     IN /\ draft' = Some(drf)
        /\ BeginCall(llm[1], PassOrder[4], "critiqueSchema",
                     critiqueMessages(locals[1], coverage[1], drf), critiqueFallback)
  /\ UNCHANGED <<env, op, pc, llm, locals, generatedMetadata, resolved, coverage,
                 resolvedQuestionCount, heuristicConsulted, critique, finalQuiz, result, db, response>>
  /\ UNCHANGED parked

\* pass 4 returned: the final revision pass starts
AfterCritique ==
  /\ pc = "pipeline"
  /\ call.status = "returned"
  /\ call.name = PassOrder[4]
  /\ LET crit == call.value[1]
     IN /\ critique' = Some(crit)
        /\ BeginCall(llm[1], PassOrder[5], "finalQuizSchema",
                     finalMessages(crit, draft[1], resolvedQuestionCount[1]),
                     finalFallback(coverage[1], resolved[1], draft[1], resolvedQuestionCount[1]))
  /\ UNCHANGED <<env, op, pc, llm, locals, generatedMetadata, resolved, coverage,
                 resolvedQuestionCount, heuristicConsulted, draft, finalQuiz, result, db, response>>
  /\ UNCHANGED parked

\* pass 5 returned: the quiz is assembled and the run returns { quiz, metadata }
AfterFinal ==
  /\ pc = "pipeline"
  /\ call.status = "returned"
  /\ call.name = PassOrder[5]
  /\ LET final == call.value[1]
     IN /\ finalQuiz' = Some(final)
        /\ result' = Returned(
             [quiz |-> assembleQuiz(final, resolved[1]),
              metadata |-> runMetadata(locals[1], generatedMetadata[1], resolved[1], coverage[1],
                                       critique[1], resolvedQuestionCount[1], env)])
  /\ pc' = IF op.kind \in {"generate", "trouble"} THEN "save" ELSE "done"
  /\ UNCHANGED <<env, schemaCounter, providerRequests, op, llm, call, trace, locals,
                 generatedMetadata, resolved, coverage, resolvedQuestionCount, heuristicConsulted,
                 draft, critique, db, response>>
  /\ UNCHANGED <<runRequests, parked>>

\* the metadata the handler stores: the trouble handler adds troubleQuiz
savedMetadata ==
  IF op.kind = "trouble"
  THEN [troubleQuiz |-> [mode |-> "regenerate_similar", weakPromptCount |-> Len(op.candidates),
                         sourceCount |-> Len(op.docs)]] @@ result.value[1].metadata
  ELSE result.value[1].metadata

\* the handler persists the returned quiz and answers 200
SaveDone ==
  /\ pc = "save"
  /\ db' = saveQuizFromGeneratedPayload(db, result.value[1].quiz, savedMetadata, op.docs)
  /\ response' = Some([status |-> 200, error |-> None, quiz |-> Some(result.value[1].quiz)])
  /\ pc' = "done"
  /\ UNCHANGED <<env, schemaCounter, providerRequests, op, llm, call, trace,
                 pipelineVars, result>>
  /\ UNCHANGED <<runRequests, parked>>

\* gradeOpenEndedAnswer: the client is built and its one completeJson call made
CallGrade ==
  /\ pc = "idle"
  /\ \E input \in GradeInputs :
       /\ op' = [kind |-> "grade", input |-> input, docs |-> <<>>]
       /\ BeginCall(LlmJsonClient(env), "grade", "gradeSchema", gradeMessages(input), gradeFallback(input))
  /\ llm' = Some(LlmJsonClient(env))
  /\ pc' = "single"
  /\ UNCHANGED <<env, pipelineVars, result, db, response>>
  /\ UNCHANGED parked

\* generateQuizChatReply: the client is built and its one completeJson call made
CallChat ==
  /\ pc = "idle"
  /\ \E input \in ChatInputs :
       /\ op' = [kind |-> "chat", input |-> input, docs |-> <<>>]
       /\ BeginCall(LlmJsonClient(env), "chat", "chatReplySchema", chatMessages(input), chatFallback(input))
  /\ llm' = Some(LlmJsonClient(env))
  /\ pc' = "single"
  /\ UNCHANGED <<env, pipelineVars, result, db, response>>
  /\ UNCHANGED parked

\* gradeOpenEndedAnswer / generateQuizChatReply when new OpenAI(...) rejects the missing key
CallSingleThrows ==
  /\ pc = "idle"
  /\ ConstructorMayThrow(env)
  /\ \/ \E input \in GradeInputs : op' = [kind |-> "grade", input |-> input, docs |-> <<>>]
     \/ \E input \in ChatInputs : op' = [kind |-> "chat", input |-> input, docs |-> <<>>]
  /\ result' = Rejected(OpenAIConstructorError)
  /\ pc' = "done"
  /\ UNCHANGED <<env, schemaCounter, providerRequests, llm, call, trace, pipelineVars,
                 db, response>>
  /\ UNCHANGED <<runRequests, parked>>

\* the single call returned: the grade as it is, the chat reply trimmed
SingleReturned ==
  /\ pc = "single"
  /\ call.status = "returned"
  /\ result' = IF op.kind = "chat"
               THEN Returned([reply |-> Trim(call.value[1].reply)])
               ELSE Returned(call.value[1])
  /\ pc' = "done"
  /\ UNCHANGED <<env, schemaCounter, providerRequests, op, llm, call, trace,
                 pipelineVars, db, response>>
  /\ UNCHANGED <<runRequests, parked>>

\* the single call threw: the operation rejects with that error
SingleFailed ==
  /\ pc = "single"
  /\ call.status = "threw"
  /\ result' = Rejected(call.error[1])
  /\ pc' = "done"
  /\ UNCHANGED <<env, schemaCounter, providerRequests, op, llm, call, trace,
                 pipelineVars, db, response>>
  /\ UNCHANGED <<runRequests, parked>>

Next ==
  \/ EnvChange
  \/ CallGenerate
  \/ CallGenerateThrows
  \/ PostGenerate
  \/ FindManyEmpty
  \/ FindManyDone
  \/ FindManyDoneThrows
  \/ StrictReply
  \/ StrictReplyDowngrade
  \/ LooseReply
  \/ PassFailed
  \/ AfterMetadata
  \/ AfterCoverage
  \/ AfterDraft
  \/ AfterCritique
  \/ AfterFinal
  \/ SaveDone
  \/ CallGrade
  \/ CallChat
  \/ CallSingleThrows
  \/ SingleReturned
  \/ SingleFailed

Spec == Init /\ [][Next]_vars

\* ------------------------------------------------------------------------
\* Offline runs of the pipeline over every combination of its inputs
\* ------------------------------------------------------------------------
InitOffline ==
  /\ Init
  /\ env.MOCK_LLM

\* a direct call of generateQuizIteratively with any combination of inputs
CallGenerateAnyInput ==
  /\ pc = "idle"
  /\ \E input \in AllGenerateInputs :
       /\ op' = [kind |-> "direct", input |-> input, docs |-> <<>>]
       /\ StartPipeline(input)
  /\ UNCHANGED env
  /\ UNCHANGED parked

NextOffline ==
  \/ EnvChange
  \/ CallGenerateAnyInput
  \/ AfterMetadata
  \/ AfterCoverage
  \/ AfterDraft
  \/ AfterCritique
  \/ AfterFinal

SpecOffline == InitOffline /\ [][NextOffline]_vars

\* ------------------------------------------------------------------------
\* The exported pure functions applied to inputs of bounded size
\* ------------------------------------------------------------------------
\* the functions read nothing of the environment: one environment is enough
InitFunctions ==
  /\ Init
  /\ env = [MOCK_LLM |-> TRUE, OPENAI_API_KEY |-> FALSE]

\* content lengths just below each band limit; sums of two reach the limits
SizingSources ==
  {[origin |-> "markdown", title |-> <<"s">>, content |-> [len |-> n, head |-> "x", rest |-> ""]] :
     n \in {0, 1, 2499, 5999, 11999, 24999}}

SizingSourceLists == UNION {[1..n -> SizingSources] : n \in 1..MaxSources}

Items(n) == [i \in 1..n |-> <<"item">>]

SizingBlueprints ==
  {[concepts |-> Items(c), misconceptions |-> Items(m), learningGoals |-> Items(g)] :
     c \in 0..MaxBlueprintItems, m \in {0, 1, MaxBlueprintItems}, g \in 0..3}

\* chooseQuestionCountFromSources(sources, coverage)
CallChooseQuestionCount ==
  /\ pc = "idle"
  /\ \E sources \in SizingSourceLists, cov \in SizingBlueprints :
       /\ op' = [kind |-> "chooseQuestionCount",
                 input |-> [sources |-> sources, coverage |-> cov], docs |-> <<>>]
       /\ result' = Returned(chooseQuestionCountFromSources(sources, cov))
  /\ pc' = "done"
  /\ UNCHANGED <<env, schemaCounter, providerRequests, llm, call, trace, pipelineVars, db, response>>
  /\ UNCHANGED <<runRequests, parked>>

\* array elements of every kind the coercion tells apart
CoerceElements ==
  { JStr(<<"W">>), JStr(<<" ", "w", " ">>), JStr(<<" ">>), JStr(<<>>),
    JNum(7), JHalf(1), JNaN, JBool(FALSE), JNull, JUndef,
    JObj(<<>>),
    JObj(<<Prop("note", JUndef)>>),
    JObj(<<Prop("concept", JStr(<<"X">>))>>),
    JObj(<<Prop("summary", JStr(<<"S">>)), Prop("name", JStr(<<" ">>)), Prop("title", JStr(<<" ", "Y">>))>>),
    JObj(<<Prop("name", JNum(1)), Prop("id", JStr(<<"i">>))>>),
    JArr(<<>>), JArr(<<JStr(<<"n">>)>>) }

CoerceInputs ==
  {JUndef, JNull, JStr(<<"W">>), JNum(7), JObj(<<Prop("name", JStr(<<"N">>))>>)}
  \cup {JArr(items) : items \in UNION {[1..n -> CoerceElements] : n \in 0..MaxCoerceItems}}

\* coerceStringArrayItems(input)
CallCoerceStringArrayItems ==
  /\ pc = "idle"
  /\ \E input \in CoerceInputs :
       /\ op' = [kind |-> "coerceStringArrayItems", input |-> input, docs |-> <<>>]
       /\ result' = Returned(coerceStringArrayItems(input))
  /\ pc' = "done"
  /\ UNCHANGED <<env, schemaCounter, providerRequests, llm, call, trace, pipelineVars, db, response>>
  /\ UNCHANGED <<runRequests, parked>>

AnswerChars == {" ", "-", "+", "0", "1", "2", "a", "."}

AnswerTexts == UNION {[1..n -> AnswerChars] : n \in 0..MaxAnswerLength}

CorrectIndexes == {JNum(0), JNum(2), JNum(12), JNum(-1), JHalf(2), JNaN}

\* scoreMultipleChoice(correctIndex, userAnswer)
CallScoreMultipleChoice ==
  /\ pc = "idle"
  /\ \E correctIndex \in CorrectIndexes, userAnswer \in AnswerTexts :
       /\ op' = [kind |-> "scoreMultipleChoice",
                 input |-> [correctIndex |-> correctIndex, userAnswer |-> userAnswer], docs |-> <<>>]
       /\ result' = Returned(scoreMultipleChoice(correctIndex, userAnswer))
  /\ pc' = "done"
  /\ UNCHANGED <<env, schemaCounter, providerRequests, llm, call, trace, pipelineVars, db, response>>
  /\ UNCHANGED <<runRequests, parked>>

\* three questions of one stored quiz
ReviewQuestions ==
  << questionRow(1, 0, fallbackQuestion(0, <<"Data systems">>)),
     questionRow(1, 1, fallbackQuestion(1, <<"Data systems">>)),
     questionRow(1, 2, fallbackQuestion(2, <<"Data systems">>)) >>

\* the fields of an answer record the ranking reads
MissRecords ==
  [questionId : 1..Len(ReviewQuestions), score : {JNum(0), JHalf(0)}, createdAt : 1..3]

MissRecordLists == UNION {[1..n -> MissRecords] : n \in 0..MaxStoredAnswers}

\* getTroubleQuestionCandidates(prisma) over a table of answers
CallGetTroubleQuestionCandidates ==
  /\ pc = "idle"
  /\ \E answers \in MissRecordLists :
       /\ op' = [kind |-> "getTroubleQuestionCandidates", input |-> answers, docs |-> <<>>]
       /\ result' = Returned(getTroubleQuestionCandidates(answers, ReviewQuestions))
  /\ pc' = "done"
  /\ UNCHANGED <<env, schemaCounter, providerRequests, llm, call, trace, pipelineVars, db, response>>
  /\ UNCHANGED <<runRequests, parked>>

\* buildQuizChatPrompt(input)
CallBuildQuizChatPrompt ==
  /\ pc = "idle"
  /\ \E input \in ChatInputs :
       /\ op' = [kind |-> "buildQuizChatPrompt", input |-> input, docs |-> <<>>]
       /\ result' = Returned(buildQuizChatPrompt(input))
  /\ pc' = "done"
  /\ UNCHANGED <<env, schemaCounter, providerRequests, llm, call, trace, pipelineVars, db, response>>
  /\ UNCHANGED <<runRequests, parked>>

NextFunctions ==
  \/ CallBuildQuizChatPrompt
  \/ CallChooseQuestionCount
  \/ CallCoerceStringArrayItems
  \/ CallScoreMultipleChoice
  \/ CallGetTroubleQuestionCandidates

SpecFunctions == InitFunctions /\ [][NextFunctions]_vars

\* ------------------------------------------------------------------------
\* Concurrent operations: each runs from one await to the next, and between
\* two such steps the event loop may resume any other operation
\* ------------------------------------------------------------------------
\* the state an operation carries across its awaits
RunState ==
  [op |-> op, pc |-> pc, llm |-> llm, call |-> call, trace |-> trace, locals |-> locals,
   generatedMetadata |-> generatedMetadata, resolved |-> resolved, coverage |-> coverage,
   resolvedQuestionCount |-> resolvedQuestionCount, heuristicConsulted |-> heuristicConsulted,
   draft |-> draft, critique |-> critique, finalQuiz |-> finalQuiz, result |-> result,
   response |-> response, runRequests |-> runRequests]

\* an operation that has not been called yet
FreshRun ==
  [op |-> [kind |-> "none", input |-> <<>>, docs |-> <<>>], pc |-> "idle", llm |-> None,
   call |-> NoCall, trace |-> <<>>, locals |-> None, generatedMetadata |-> None,
   resolved |-> None, coverage |-> None, resolvedQuestionCount |-> None,
   heuristicConsulted |-> FALSE, draft |-> None, critique |-> None, finalQuiz |-> None,
   result |-> NoResult, response |-> None, runRequests |-> 0]

\* the event loop resumes another operation; the statics and process.env stay
Switch ==
  /\ \E i \in 1..Len(parked) :
       LET r == parked[i]
       IN /\ op' = r.op
          /\ pc' = r.pc
          /\ llm' = r.llm
          /\ call' = r.call
          /\ trace' = r.trace
          /\ locals' = r.locals
          /\ generatedMetadata' = r.generatedMetadata
          /\ resolved' = r.resolved
          /\ coverage' = r.coverage
          /\ resolvedQuestionCount' = r.resolvedQuestionCount
          /\ heuristicConsulted' = r.heuristicConsulted
          /\ draft' = r.draft
          /\ critique' = r.critique
          /\ finalQuiz' = r.finalQuiz
          /\ result' = r.result
          /\ response' = r.response
          /\ runRequests' = r.runRequests
          /\ parked' = [parked EXCEPT ![i] = RunState]
  /\ UNCHANGED <<env, schemaCounter, providerRequests, db>>

\* live mode with a credential, MaxRuns operations not yet called
InitConcurrent ==
  /\ env = [MOCK_LLM |-> FALSE, OPENAI_API_KEY |-> TRUE]
  /\ schemaCounter = 0
  /\ providerRequests = 0
  /\ db = EmptyStore
  /\ op = FreshRun.op
  /\ pc = FreshRun.pc
  /\ llm = FreshRun.llm
  /\ call = FreshRun.call
  /\ trace = FreshRun.trace
  /\ locals = FreshRun.locals
  /\ generatedMetadata = FreshRun.generatedMetadata
  /\ resolved = FreshRun.resolved
  /\ coverage = FreshRun.coverage
  /\ resolvedQuestionCount = FreshRun.resolvedQuestionCount
  /\ heuristicConsulted = FreshRun.heuristicConsulted
  /\ draft = FreshRun.draft
  /\ critique = FreshRun.critique
  /\ finalQuiz = FreshRun.finalQuiz
  /\ result = FreshRun.result
  /\ response = FreshRun.response
  /\ runRequests = FreshRun.runRequests
  /\ parked = [i \in 1..(MaxRuns - 1) |-> FreshRun]

\* a direct call of generateQuizIteratively with the default input
CallGenerateDefault ==
  /\ pc = "idle"
  /\ op' = [kind |-> "direct", input |-> DefaultInput, docs |-> <<>>]
  /\ StartPipeline(DefaultInput)
  /\ UNCHANGED <<env, parked>>

DefaultGradeInput ==
  [prompt |-> <<"Explain eventual consistency.">>, expectedAnswer |-> Some(ExpectedText),
   rubric |-> None, userAnswer |-> <<"n", "o">>]

\* gradeOpenEndedAnswer called with one fixed input
CallGradeDefault ==
  /\ pc = "idle"
  /\ op' = [kind |-> "grade", input |-> DefaultGradeInput, docs |-> <<>>]
  /\ BeginCall(LlmJsonClient(env), "grade", "gradeSchema", gradeMessages(DefaultGradeInput),
               gradeFallback(DefaultGradeInput))
  /\ llm' = Some(LlmJsonClient(env))
  /\ pc' = "single"
  /\ UNCHANGED <<env, pipelineVars, result, db, response, parked>>

\* one conforming completion per schema and one rejection
BriefReplies(schema) ==
  {JsonReply(CHOOSE j \in ValidJsons(schema) : TRUE),
   ErrorReply(MakeError(<<"401 Incorrect API key provided">>))}

\* the provider answers the json_schema request, one of BriefReplies
StrictReplyBrief ==
  /\ call.status = "strict"
  /\ \E reply \in BriefReplies(call.schema) :
       call' = [completeJsonResume(call, reply) EXCEPT !.reply = Some(reply)]
  /\ trace' = trace \o Tail(CallEvents(call'))
  /\ UNCHANGED <<env, schemaCounter, providerRequests, op, pc, llm, pipelineVars,
                 result, db, response, runRequests, parked>>

\* the provider answers the json_object request, one of BriefReplies
LooseReplyBrief ==
  /\ call.status = "loose"
  /\ \E reply \in BriefReplies(call.schema) :
       call' = [completeJsonResume(call, reply) EXCEPT !.reply = Some(reply)]
  /\ trace' = trace \o Tail(CallEvents(call'))
  /\ UNCHANGED <<env, schemaCounter, providerRequests, op, pc, llm, pipelineVars,
                 result, db, response, runRequests, parked>>

NextConcurrent ==
  \/ Switch
  \/ CallGenerateDefault
  \/ CallGradeDefault
  \/ StrictReplyBrief
  \/ StrictReplyDowngrade
  \/ LooseReplyBrief
  \/ PassFailed
  \/ AfterMetadata
  \/ AfterCoverage
  \/ AfterDraft
  \/ AfterCritique
  \/ AfterFinal
  \/ SingleReturned
  \/ SingleFailed

SpecConcurrent == InitConcurrent /\ [][NextConcurrent]_vars

\* ------------------------------------------------------------------------
\* POST /api/quizzes/custom/trouble (app.ts)
\* ------------------------------------------------------------------------
parseTroubleMode(input) ==
  IF input \in {JStr(<<"reuse_exact">>), JStr(<<"regenerate_similar">>)} THEN Some(input.v[1]) ELSE None

\* typeof req.body?.title === "string" ? req.body.title.trim() : ""
customTitleOf(body) == IF body.title.k = "string" THEN Trim(body.title.v) ELSE <<>>

TroubleBodies ==
  [mode : {JUndef, JStr(<<"reuse_exact">>), JStr(<<"regenerate_similar">>), JStr(<<"Reuse_Exact">>)},
   questionCount : {JUndef, JNum(3), JNum(25)},
   title : {JUndef, JStr(<<" ", "Mine", " ">>)}]

\* the question rebuilt from a candidate's stored columns
reuseQuestion(item) ==
  [type |-> IF item.type = "multiple_choice" THEN "multiple_choice" ELSE "open_ended",
   prompt |-> item.prompt,
   choices |-> item.choicesJson,
   correctChoiceIndex |-> item.metadataJson.correctChoiceIndex,
   expectedAnswer |-> item.expectedAnswer,
   rubric |-> item.rubricJson,
   explanation |-> item.metadataJson.explanation]

\* a selection that ignores the requested count
reuseSelectionAll(requestedCount, candidates) == candidates

\* requestedCount ? candidates.slice(0, requestedCount) : candidates, then slice(0, 20)
reuseSelection(requestedCount, candidates) ==
  LET selected == IF JsTruthy(requestedCount)
                  THEN SliceTo(candidates, requestedCount.v[1]) ELSE candidates
  IN SliceTo(selected, MaxQuestions)

reuseQuiz(body, candidates) ==
  LET safeSelected == reuseSelection(parseQuestionCount(body.questionCount), candidates)
  IN [title |-> OrElse(customTitleOf(body), <<"Trouble Questions Practice">>),
      topic |-> <<"Targeted Review">>,
      summary |-> <<"A focused quiz built from questions you have previously missed.">>,
      questions |-> [i \in 1..Len(safeSelected) |-> reuseQuestion(safeSelected[i])]]

reuseMetadata(body, candidates) ==
  [generationMode |-> "trouble_custom",
   troubleQuiz |-> [mode |-> "reuse_exact",
                    selectedQuestionCount |->
                      Len(reuseSelection(parseQuestionCount(body.questionCount), candidates)),
                    weakPromptCount |-> Len(candidates)]]

\* sourceDocument.findMany({ where: { quizzes: { some: { quizId: { in: sourceQuizIds } } } } })
findSourcesOfQuizzes(store, candidates) ==
  LET sourceQuizIds == {candidates[i].quizId : i \in 1..Len(candidates)}
      linked == UNION {{store.quizzes[q].sources[k] : k \in 1..Len(store.quizzes[q].sources)} :
                         q \in sourceQuizIds}
  IN SelectSeq(store.sources, LAMBDA doc : doc.id \in linked)

troubleInputOf(body, candidates, sourceDocs) ==
  [sources |-> [i \in 1..Len(sourceDocs) |-> toNormalizedSource(sourceDocs[i])],
   title |-> Some(OrElse(customTitleOf(body), <<"Trouble Questions Remix">>)),
   description |-> Some(<<"A regenerated quiz focused on your most-missed concepts.">>),
   topic |-> Some(<<"Targeted Review">>),
   autoMetadata |-> JBool(FALSE),
   questionCount |-> parseQuestionCount(body.questionCount),
   focusPrompts |-> JArr([i \in 1..Min(Len(candidates), MaxFocusPrompts) |-> JStr(candidates[i].prompt)])]

\* the handler up to its first await: the mode is checked
PostTrouble ==
  /\ pc = "idle"
  /\ \E body \in TroubleBodies :
       /\ op' = [kind |-> "trouble", input |-> body, docs |-> <<>>, candidates |-> <<>>]
       /\ IF parseTroubleMode(body.mode) = None
          THEN /\ response' = Some([status |-> 400,
                                    error |-> Some(<<"mode must be 'reuse_exact' or 'regenerate_similar'.">>),
                                    quiz |-> None])
               /\ pc' = "done"
          ELSE /\ response' = response
               /\ pc' = "candidates"
  /\ UNCHANGED <<env, schemaCounter, providerRequests, llm, call, trace, pipelineVars,
                 result, db, runRequests, parked>>

\* getTroubleQuestionCandidates came back empty: 404
TroubleNoCandidates ==
  /\ pc = "candidates"
  /\ getTroubleQuestionCandidates(db.answers, db.questions) = <<>>
  /\ response' = Some([status |-> 404,
                       error |-> Some(<<"No missed questions found yet. Complete at least one quiz attempt first.">>),
                       quiz |-> None])
  /\ pc' = "done"
  /\ UNCHANGED <<env, schemaCounter, providerRequests, op, llm, call, trace, pipelineVars,
                 result, db, runRequests, parked>>

\* candidates came back: reuse_exact saves next, regenerate_similar looks the sources up
TroubleCandidatesFound ==
  /\ pc = "candidates"
  /\ LET candidates == getTroubleQuestionCandidates(db.answers, db.questions)
     IN /\ candidates # <<>>
        /\ op' = [op EXCEPT !.candidates = candidates]
  /\ pc' = IF parseTroubleMode(op.input.mode) = Some("reuse_exact") THEN "reuseSave" ELSE "troubleFindMany"
  /\ UNCHANGED <<env, schemaCounter, providerRequests, llm, call, trace, pipelineVars,
                 result, db, response, runRequests, parked>>

\* reuse_exact: the quiz built from the candidates is persisted and answered
TroubleReuseSaved ==
  /\ pc = "reuseSave"
  /\ db' = saveQuizFromGeneratedPayload(db, reuseQuiz(op.input, op.candidates),
                                        reuseMetadata(op.input, op.candidates), <<>>)
  /\ response' = Some([status |-> 200, error |-> None, quiz |-> Some(reuseQuiz(op.input, op.candidates))])
  /\ pc' = "done"
  /\ UNCHANGED <<env, schemaCounter, providerRequests, op, llm, call, trace, pipelineVars,
                 result, runRequests, parked>>

\* regenerate_similar: no source is linked to the candidates' quizzes: 400
TroubleNoSources ==
  /\ pc = "troubleFindMany"
  /\ findSourcesOfQuizzes(db, op.candidates) = <<>>
  /\ response' = Some([status |-> 400,
                       error |-> Some(<<"Could not build source context for regenerated trouble quiz. Try exact-reuse mode instead.">>),
                       quiz |-> None])
  /\ pc' = "done"
  /\ UNCHANGED <<env, schemaCounter, providerRequests, op, llm, call, trace, pipelineVars,
                 result, db, runRequests, parked>>

\* regenerate_similar: the pipeline starts, outside any try block
TroubleSourcesFound ==
  /\ pc = "troubleFindMany"
  /\ \E docs \in {findSourcesOfQuizzes(db, op.candidates)} :
       /\ docs # <<>>
       /\ op' = [op EXCEPT !.docs = docs]
       /\ \E input \in {troubleInputOf(op.input, op.candidates, docs)} : StartPipeline(input)
  /\ UNCHANGED <<env, parked>>

TroubleSourcesFoundThrows ==
  /\ pc = "troubleFindMany"
  /\ \E docs \in {findSourcesOfQuizzes(db, op.candidates)} :
       /\ docs # <<>>
       /\ op' = [op EXCEPT !.docs = docs]
       /\ \E input \in {troubleInputOf(op.input, op.candidates, docs)} : StartPipelineThrows(input)
  /\ UNCHANGED <<env, runRequests, parked>>

\* ------------------------------------------------------------------------
\* POST /api/attempts/:attemptId/answers (app.ts)
\* ------------------------------------------------------------------------
AnswerBodies ==
  [attemptId : {1, 2, 9},
   questionId : {None, Some(1), Some(2), Some(MaxQuestions + 1)},
   userAnswer : {None, Some(<<" ">>), Some(<<"0">>), Some(<<"1">>)},
   retryIndex : {JUndef, JNum(1)}]

\* Number.isFinite(req.body.retryIndex) ? Number(req.body.retryIndex) : 0
retryIndexOf(body) == IF NumberIsFinite(body.retryIndex) THEN body.retryIndex ELSE JNum(0)

\* String(req.body.userAnswer ?? "")
userAnswerOf(body) == IF IsSome(body.userAnswer) THEN body.userAnswer[1] ELSE <<>>

\* the multiple-choice branch; Number(null) is 0
choiceGrade(question, userAnswer) ==
  LET correctChoiceIndex == IF IsSome(question.metadataJson.correctChoiceIndex)
                            THEN JNum(question.metadataJson.correctChoiceIndex[1]) ELSE JNum(0)
      graded == scoreMultipleChoice(correctChoiceIndex, userAnswer)
  IN [correctness |-> graded.correctness, score |-> JNum(graded.score),
      feedback |-> IF graded.correctness = "correct"
                   THEN <<"Correct choice.">> ELSE <<"That choice is not correct.">>,
      followup |-> <<>>, graderJson |-> None]

\* an open-ended branch that gives no credit for a partially correct answer
openEndedGradeAllOrNothing(graded) ==
  [correctness |-> graded.correctness,
   score |-> IF graded.correctness = "correct" THEN JNum(1) ELSE JNum(0),
   feedback |-> graded.explanation, followup |-> graded.followup, graderJson |-> Some(graded)]

\* the open-ended branch, from the grade gradeOpenEndedAnswer returned
openEndedGrade(graded) ==
  [correctness |-> graded.correctness,
   score |-> IF graded.correctness = "correct" THEN JNum(1)
             ELSE IF graded.correctness = "partially_correct" THEN JHalf(0) ELSE JNum(0),
   feedback |-> graded.explanation, followup |-> graded.followup, graderJson |-> Some(graded)]

gradeInputOf(question, userAnswer) ==
  [prompt |-> question.prompt, expectedAnswer |-> question.expectedAnswer,
   rubric |-> question.rubricJson, userAnswer |-> userAnswer]

answerRow(body, graded, now) ==
  [attemptId |-> body.attemptId, questionId |-> body.questionId[1], userAnswer |-> userAnswerOf(body),
   correctness |-> graded.correctness, score |-> graded.score, feedback |-> graded.feedback,
   followup |-> graded.followup, graderJson |-> graded.graderJson,
   retryIndex |-> retryIndexOf(body), createdAt |-> now]

\* a create that overwrites the record of the same question of the same attempt
createAttemptAnswerUpsert(store, row) ==
  LET same == {i \in 1..Len(store.answers) :
                 store.answers[i].attemptId = row.attemptId /\ store.answers[i].questionId = row.questionId}
  IN IF same = {}
     THEN [store EXCEPT !.answers = Append(@, row), !.clock = row.createdAt]
     ELSE [store EXCEPT !.answers[CHOOSE i \in same : TRUE] = row, !.clock = row.createdAt]

\* db.attemptAnswer.create({ data })
createAttemptAnswer(store, row) ==
  [store EXCEPT !.answers = Append(@, row), !.clock = row.createdAt]

\* the handler up to its first await
PostAnswer ==
  /\ pc = "idle"
  /\ \E body \in AnswerBodies :
       op' = [kind |-> "answer", input |-> body, docs |-> <<>>, graded |-> None]
  /\ pc' = "findAttempt"
  /\ UNCHANGED <<env, schemaCounter, providerRequests, llm, call, trace, pipelineVars,
                 result, db, response, runRequests, parked>>

\* the attempt is missing (404) or finished (409), or the body is incomplete (400)
AnswerAttemptRejected ==
  /\ pc = "findAttempt"
  /\ LET body == op.input
         known == body.attemptId \in 1..Len(db.attempts)
     IN /\ IF known
           THEN (db.attempts[body.attemptId].status = "finished"
                 \/ ~IsSome(body.questionId)
                 \/ Trim(userAnswerOf(body)) = <<>>)
           ELSE TRUE
        /\ response' =
             IF ~known
             THEN Some([status |-> 404, error |-> Some(<<"Attempt not found.">>), quiz |-> None])
             ELSE IF db.attempts[body.attemptId].status = "finished"
             THEN Some([status |-> 409, error |-> Some(<<"Attempt is already finished.">>), quiz |-> None])
             ELSE Some([status |-> 400, error |-> Some(<<"questionId and userAnswer are required.">>),
                        quiz |-> None])
  /\ pc' = "done"
  /\ UNCHANGED <<env, schemaCounter, providerRequests, op, llm, call, trace, pipelineVars,
                 result, db, runRequests, parked>>

\* the attempt is open and the body complete: the question is looked up
AnswerAttemptFound ==
  /\ pc = "findAttempt"
  /\ op.input.attemptId \in 1..Len(db.attempts)
  /\ db.attempts[op.input.attemptId].status # "finished"
  /\ IsSome(op.input.questionId)
  /\ Trim(userAnswerOf(op.input)) # <<>>
  /\ pc' = "findQuestion"
  /\ UNCHANGED <<env, schemaCounter, providerRequests, op, llm, call, trace, pipelineVars,
                 result, db, response, runRequests, parked>>

\* the question is missing or belongs to another quiz: 404
AnswerQuestionMissing ==
  /\ pc = "findQuestion"
  /\ LET id == op.input.questionId[1]
     IN IF id \in 1..Len(db.questions)
        THEN db.questions[id].quizId # db.attempts[op.input.attemptId].quizId
        ELSE TRUE
  /\ response' = Some([status |-> 404, error |-> Some(<<"Question not found for this attempt.">>),
                       quiz |-> None])
  /\ pc' = "done"
  /\ UNCHANGED <<env, schemaCounter, providerRequests, op, llm, call, trace, pipelineVars,
                 result, db, runRequests, parked>>

AnswerQuestionFound ==
  /\ op.input.questionId[1] \in 1..Len(db.questions)
  /\ db.questions[op.input.questionId[1]].quizId = db.attempts[op.input.attemptId].quizId

\* a multiple-choice question is scored on the spot
AnswerChoiceScored ==
  /\ pc = "findQuestion"
  /\ AnswerQuestionFound
  /\ db.questions[op.input.questionId[1]].type = "multiple_choice"
  /\ op' = [op EXCEPT !.graded =
              Some(choiceGrade(db.questions[op.input.questionId[1]], userAnswerOf(op.input)))]
  /\ pc' = "createAnswer"
  /\ UNCHANGED <<env, schemaCounter, providerRequests, llm, call, trace, pipelineVars,
                 result, db, response, runRequests, parked>>

\* any other question goes to gradeOpenEndedAnswer, outside any try block
AnswerGradeStarted ==
  /\ pc = "findQuestion"
  /\ AnswerQuestionFound
  /\ db.questions[op.input.questionId[1]].type # "multiple_choice"
  /\ LET input == gradeInputOf(db.questions[op.input.questionId[1]], userAnswerOf(op.input))
     IN BeginCall(LlmJsonClient(env), "grade", "gradeSchema", gradeMessages(input), gradeFallback(input))
  /\ llm' = Some(LlmJsonClient(env))
  /\ pc' = "answerGrade"
  /\ UNCHANGED <<env, op, pipelineVars, result, db, response, parked>>

AnswerGradeStartThrows ==
  /\ pc = "findQuestion"
  /\ AnswerQuestionFound
  /\ db.questions[op.input.questionId[1]].type # "multiple_choice"
  /\ ConstructorMayThrow(env)
  /\ RejectRun(OpenAIConstructorError)
  /\ UNCHANGED <<env, schemaCounter, providerRequests, op, llm, call, trace, pipelineVars,
                 db, runRequests, parked>>

\* gradeOpenEndedAnswer returned
AnswerGraded ==
  /\ pc = "answerGrade"
  /\ call.status = "returned"
  /\ op' = [op EXCEPT !.graded = Some(openEndedGrade(call.value[1]))]
  /\ pc' = "createAnswer"
  /\ UNCHANGED <<env, schemaCounter, providerRequests, llm, call, trace, pipelineVars,
                 result, db, response, runRequests, parked>>

\* gradeOpenEndedAnswer rejected: nothing in the handler catches it
AnswerGradeFailed ==
  /\ pc = "answerGrade"
  /\ call.status = "threw"
  /\ RejectRun(call.error[1])
  /\ UNCHANGED <<env, schemaCounter, providerRequests, op, llm, call, trace, pipelineVars,
                 db, runRequests, parked>>

\* the answer record is created, stamped with the database's time, and answered
AnswerCreated ==
  /\ pc = "createAnswer"
  /\ \E now \in {db.clock, db.clock + 1} :
       db' = createAttemptAnswer(db, answerRow(op.input, op.graded[1], now))
  /\ response' = Some([status |-> 200, error |-> None, quiz |-> None])
  /\ pc' = "done"
  /\ UNCHANGED <<env, schemaCounter, providerRequests, op, llm, call, trace, pipelineVars,
                 result, runRequests, parked>>

\* how often the learner answers the same question of one attempt
MaxSubmissions == 2

SubmissionsOf(store, attemptId, questionId) ==
  Cardinality({i \in 1..Len(store.answers) :
                 store.answers[i].attemptId = attemptId /\ store.answers[i].questionId = questionId})

\* the request is over and the learner posts the next answer, to a server
\* whose database keeps what the earlier requests stored
NextAnswerRequest ==
  /\ pc = "done"
  /\ op.kind = "answer"
  /\ response # None
  /\ response[1].status = 200
  /\ SubmissionsOf(db, op.input.attemptId, op.input.questionId[1]) < MaxSubmissions
  /\ \E body \in AnswerBodies :
       op' = [kind |-> "answer", input |-> body, docs |-> <<>>, graded |-> None]
  /\ pc' = "findAttempt"
  /\ llm' = FreshRun.llm
  /\ call' = FreshRun.call
  /\ trace' = FreshRun.trace
  /\ result' = FreshRun.result
  /\ response' = FreshRun.response
  /\ runRequests' = FreshRun.runRequests
  /\ UNCHANGED <<env, schemaCounter, providerRequests, pipelineVars, db, parked>>

\* ------------------------------------------------------------------------
\* The HTTP handlers over a database that holds quizzes, attempts and answers
\* ------------------------------------------------------------------------
\* one generated quiz of MaxQuestions questions linked to a source, and one
\* trouble quiz of MinQuestions questions linked to none
StoreWithQuizzes ==
  saveQuizFromGeneratedPayload(
    saveQuizFromGeneratedPayload(
      EmptyStore, fallbackQuiz(<<"Data systems">>, <<"Data Systems Quiz">>, MaxQuestions),
      [generationMode |-> "mock"], <<StoredSourceDocs[1]>>),
    fallbackQuiz(<<"Targeted Review">>, <<"Trouble Questions Practice">>, MinQuestions),
    [generationMode |-> "trouble_custom"], <<>>)

StoredAttempts ==
  << [quizId |-> 1, status |-> "in_progress"], [quizId |-> 1, status |-> "finished"],
     [quizId |-> 2, status |-> "in_progress"] >>

StoredAnswer(attemptId, questionId, score, createdAt) ==
  [attemptId |-> attemptId, questionId |-> questionId, userAnswer |-> <<"1">>,
   correctness |-> IF score = JNum(1) THEN "correct"
                   ELSE IF score = JHalf(0) THEN "partially_correct" ELSE "incorrect",
   score |-> score, feedback |-> <<>>, followup |-> <<>>, graderJson |-> None,
   retryIndex |-> JNum(0), createdAt |-> createdAt]

\* answer tables: empty; nothing missed; two questions missed; only a
\* question of the trouble quiz missed; every question missed once
StoredAnswerTables ==
  { <<>>,
    <<StoredAnswer(2, 1, JNum(1), 1), StoredAnswer(2, 2, JHalf(0), 2)>>,
    <<StoredAnswer(2, 2, JNum(0), 1), StoredAnswer(2, 1, JNum(0), 2), StoredAnswer(1, 2, JNum(0), 3)>>,
    <<StoredAnswer(3, MaxQuestions + 1, JNum(0), 1)>>,
    [i \in 1..(MaxQuestions + MinQuestions) |->
       StoredAnswer(IF i <= MaxQuestions THEN 2 ELSE 3, i, JNum(0), i)] }

InitApi ==
  /\ env \in [MOCK_LLM : BOOLEAN, OPENAI_API_KEY : BOOLEAN]
  /\ schemaCounter = 0
  /\ providerRequests = 0
  /\ \E answers \in StoredAnswerTables :
       db = [StoreWithQuizzes EXCEPT !.attempts = StoredAttempts, !.answers = answers,
                                     !.clock = Len(answers)]
  /\ op = FreshRun.op
  /\ pc = FreshRun.pc
  /\ llm = FreshRun.llm
  /\ call = FreshRun.call
  /\ trace = FreshRun.trace
  /\ locals = FreshRun.locals
  /\ generatedMetadata = FreshRun.generatedMetadata
  /\ resolved = FreshRun.resolved
  /\ coverage = FreshRun.coverage
  /\ resolvedQuestionCount = FreshRun.resolvedQuestionCount
  /\ heuristicConsulted = FreshRun.heuristicConsulted
  /\ draft = FreshRun.draft
  /\ critique = FreshRun.critique
  /\ finalQuiz = FreshRun.finalQuiz
  /\ result = FreshRun.result
  /\ response = FreshRun.response
  /\ runRequests = FreshRun.runRequests
  /\ parked = <<>>

NextApi ==
  \/ PostGenerate
  \/ FindManyEmpty
  \/ FindManyDone
  \/ FindManyDoneThrows
  \/ PostTrouble
  \/ TroubleNoCandidates
  \/ TroubleCandidatesFound
  \/ TroubleReuseSaved
  \/ TroubleNoSources
  \/ TroubleSourcesFound
  \/ TroubleSourcesFoundThrows
  \/ PostAnswer
  \/ AnswerAttemptRejected
  \/ AnswerAttemptFound
  \/ AnswerQuestionMissing
  \/ AnswerChoiceScored
  \/ AnswerGradeStarted
  \/ AnswerGradeStartThrows
  \/ AnswerGraded
  \/ AnswerGradeFailed
  \/ AnswerCreated
  \/ NextAnswerRequest
  \/ StrictReplyBrief
  \/ StrictReplyDowngrade
  \/ LooseReplyBrief
  \/ PassFailed
  \/ AfterMetadata
  \/ AfterCoverage
  \/ AfterDraft
  \/ AfterCritique
  \/ AfterFinal
  \/ SaveDone

SpecApi == InitApi /\ [][NextApi]_vars

\* the requests that run the pipeline, over a database with few answers
InitPipelineRequests ==
  /\ InitApi
  /\ Len(db.answers) <= MaxStoredAnswers

NextPipelineRequests ==
  \/ PostGenerate
  \/ FindManyEmpty
  \/ FindManyDone
  \/ FindManyDoneThrows
  \/ PostTrouble
  \/ TroubleNoCandidates
  \/ TroubleCandidatesFound
  \/ TroubleReuseSaved
  \/ TroubleNoSources
  \/ TroubleSourcesFound
  \/ TroubleSourcesFoundThrows
  \/ StrictReplyBrief
  \/ StrictReplyDowngrade
  \/ LooseReplyBrief
  \/ PassFailed
  \/ AfterMetadata
  \/ AfterCoverage
  \/ AfterDraft
  \/ AfterCritique
  \/ AfterFinal
  \/ SaveDone

\* the event loop runs every continuation that is ready, and the provider
\* answers or rejects every request in the end
SpecPipelineRequests ==
  InitPipelineRequests /\ [][NextPipelineRequests]_vars /\ WF_vars(NextPipelineRequests)

\* ------------------------------------------------------------------------
\* POST /api/attempts/:attemptId/finish (app.ts)
\* ------------------------------------------------------------------------
\* a score counted in halves: 0, 0.5 and 1 are 0, 1 and 2; null counts 0
HalvesOf(score) ==
  IF score.k # "number" THEN 0
  ELSE IF Len(score.v) = 1 THEN 2 * score.v[1] ELSE 2 * score.v[1] + 1

\* the scores latestByQuestion may hold for a question: answers come ordered
\* by createdAt, and the order among equal times is the database's choice
latestScores(answers, attemptId, questionId) ==
  LET mine == {i \in 1..Len(answers) :
                 answers[i].attemptId = attemptId /\ answers[i].questionId = questionId}
      last == {i \in mine : \A j \in mine : answers[j].createdAt <= answers[i].createdAt}
  IN IF mine = {} THEN {JNum(0)} ELSE {answers[i].score : i \in last}

RECURSIVE SumHalves(_)
SumHalves(scores) ==
  IF scores = <<>> THEN 0 ELSE HalvesOf(Head(scores)) + SumHalves(Tail(scores))

\* a summary that lists the questions answered, instead of the weak ones
finishSummaryOfAnswered(questions, latest) ==
  [scorePercent |-> [num |-> 100 * SumHalves(latest), den |-> 2 * Max(Len(questions), 1)],
   weakAreas |-> [i \in 1..Len(SelectSeq([k \in 1..Len(questions) |-> k],
                                          LAMBDA k : HalvesOf(latest[k]) >= 1)) |->
                    questions[SelectSeq([k \in 1..Len(questions) |-> k],
                                        LAMBDA k : HalvesOf(latest[k]) >= 1)[i]].prompt]]

\* scorePercent = (earned / totalQuestions) * 100, kept as a fraction, and
\* weakAreas; latest[k] is the latest score of question k
finishSummary(questions, latest) ==
  LET weak == SelectSeq([k \in 1..Len(questions) |-> k], LAMBDA k : HalvesOf(latest[k]) < 1)
  IN [scorePercent |-> [num |-> 100 * SumHalves(latest), den |-> 2 * Max(Len(questions), 1)],
      weakAreas |-> [i \in 1..Len(weak) |-> questions[weak[i]].prompt]]

questionsOfQuiz(store, quizId) == SelectSeq(store.questions, LAMBDA q : q.quizId = quizId)

questionIdsOfQuiz(store, quizId) ==
  SelectSeq([k \in 1..Len(store.questions) |-> k], LAMBDA k : store.questions[k].quizId = quizId)

\* db.attempt.update({ where: { id }, data })
updateAttempt(store, attemptId, summary, now) ==
  [store EXCEPT !.attempts[attemptId] =
                   [@ EXCEPT !.status = "finished", !.finishedAt = Some(now),
                             !.scorePercent = Some(summary.scorePercent),
                             !.summaryJson = Some([weakAreas |-> summary.weakAreas])],
                !.clock = now]

FinishBodies == [attemptId : {1, 9}]

\* the handler up to its first await
PostFinish ==
  /\ pc = "idle"
  /\ \E body \in FinishBodies :
       op' = [kind |-> "finish", input |-> body, docs |-> <<>>, computed |-> None]
  /\ pc' = "finishFind"
  /\ UNCHANGED <<env, schemaCounter, providerRequests, llm, call, trace, pipelineVars,
                 result, db, response, runRequests, parked>>

\* the attempt is missing: 404
FinishAttemptMissing ==
  /\ pc = "finishFind"
  /\ op.input.attemptId \notin 1..Len(db.attempts)
  /\ response' = Some([status |-> 404, error |-> Some(<<"Attempt not found.">>), quiz |-> None])
  /\ pc' = "done"
  /\ UNCHANGED <<env, schemaCounter, providerRequests, op, llm, call, trace, pipelineVars,
                 result, db, runRequests, parked>>

\* the attempt read is finished already: its stored score is the answer
FinishAlreadyFinished ==
  /\ pc = "finishFind"
  /\ op.input.attemptId \in 1..Len(db.attempts)
  /\ db.attempts[op.input.attemptId].status = "finished"
  /\ response' = Some([status |-> 200, error |-> None, quiz |-> None,
                       scorePercent |-> db.attempts[op.input.attemptId].scorePercent])
  /\ pc' = "done"
  /\ UNCHANGED <<env, schemaCounter, providerRequests, op, llm, call, trace, pipelineVars,
                 result, db, runRequests, parked>>

\* the attempt read is open: score and weak areas are computed from the
\* answers read, and the update is handed to the database
FinishComputed ==
  /\ pc = "finishFind"
  /\ op.input.attemptId \in 1..Len(db.attempts)
  /\ db.attempts[op.input.attemptId].status # "finished"
  /\ LET quizId == db.attempts[op.input.attemptId].quizId
         ids == questionIdsOfQuiz(db, quizId)
     IN \E latest \in [1..Len(ids) -> {JNum(0), JHalf(0), JNum(1)}] :
          /\ \A k \in 1..Len(ids) : latest[k] \in latestScores(db.answers, op.input.attemptId, ids[k])
          /\ op' = [op EXCEPT !.computed = Some(finishSummary(questionsOfQuiz(db, quizId), latest))]
  /\ pc' = "finishUpdate"
  /\ UNCHANGED <<env, schemaCounter, providerRequests, llm, call, trace, pipelineVars,
                 result, db, response, runRequests, parked>>

\* the update is done, stamped with the time of the handler, and answered
FinishUpdated ==
  /\ pc = "finishUpdate"
  /\ \E now \in {db.clock, db.clock + 1} :
       db' = updateAttempt(db, op.input.attemptId, op.computed[1], now)
  /\ response' = Some([status |-> 200, error |-> None, quiz |-> None,
                       scorePercent |-> Some(op.computed[1].scorePercent)])
  /\ pc' = "done"
  /\ UNCHANGED <<env, schemaCounter, providerRequests, op, llm, call, trace, pipelineVars,
                 result, runRequests, parked>>

\* ------------------------------------------------------------------------
\* Answer and finish requests to one attempt
\* ------------------------------------------------------------------------
\* a quiz as a live provider may return it: the schema lets a
\* multiple-choice question come without correctChoiceIndex
AttemptQuiz ==
  [title |-> <<"Data Systems Quiz">>, topic |-> <<"Data systems">>, summary |-> <<"Foundations review">>,
   questions |->
     << [type |-> "multiple_choice", prompt |-> <<"What does ACID stand for?">>,
         choices |-> Some(<< <<"x">>, <<"y">> >>), correctChoiceIndex |-> Some(1),
         expectedAnswer |-> None, rubric |-> None, explanation |-> None],
        [type |-> "open_ended", prompt |-> <<"Explain eventual consistency.">>,
         choices |-> None, correctChoiceIndex |-> None,
         expectedAnswer |-> Some(<<"1">>), rubric |-> None, explanation |-> None],
        [type |-> "multiple_choice", prompt |-> <<"Which one is a log?">>,
         choices |-> Some(<< <<"x">>, <<"y">> >>), correctChoiceIndex |-> None,
         expectedAnswer |-> None, rubric |-> None, explanation |-> None] >>]

\* db.attempt.create({ data: { quizId } })
attemptRow(quizId) ==
  [quizId |-> quizId, status |-> "in_progress", scorePercent |-> None, finishedAt |-> None,
   summaryJson |-> None]

AttemptStore ==
  [saveQuizFromGeneratedPayload(EmptyStore, AttemptQuiz, [generationMode |-> "live"],
                                <<StoredSourceDocs[1]>>)
     EXCEPT !.attempts = <<attemptRow(1)>>]

AttemptAnswerBodies ==
  [attemptId : {1},
   questionId : {Some(i) : i \in 1..Len(AttemptQuiz.questions)},
   userAnswer : {Some(<<"0">>), Some(<<"1">>)},
   retryIndex : {JUndef}]

\* how many answers the learner submits to the attempt
MaxAttemptAnswers == 2

\* the answers handler up to its first await, while the learner has answers left
PostAttemptAnswer ==
  /\ pc = "idle"
  /\ Len(db.answers) < MaxAttemptAnswers
  /\ \E body \in AttemptAnswerBodies :
       op' = [kind |-> "answer", input |-> body, docs |-> <<>>, graded |-> None]
  /\ pc' = "findAttempt"
  /\ UNCHANGED <<env, schemaCounter, providerRequests, llm, call, trace, pipelineVars,
                 result, db, response, runRequests, parked>>

\* the request was accepted and is over: the learner goes on to the next one
NextAttemptRequest ==
  /\ pc = "done"
  /\ response # None
  /\ response[1].status = 200
  /\ op' = FreshRun.op
  /\ pc' = "idle"
  /\ llm' = FreshRun.llm
  /\ call' = FreshRun.call
  /\ trace' = FreshRun.trace
  /\ result' = FreshRun.result
  /\ response' = FreshRun.response
  /\ runRequests' = FreshRun.runRequests
  /\ UNCHANGED <<env, schemaCounter, providerRequests, pipelineVars, db, parked>>

InitAttempts ==
  /\ env \in [MOCK_LLM : BOOLEAN, OPENAI_API_KEY : BOOLEAN]
  /\ schemaCounter = 0
  /\ providerRequests = 0
  /\ db = AttemptStore
  /\ op = FreshRun.op
  /\ pc = FreshRun.pc
  /\ llm = FreshRun.llm
  /\ call = FreshRun.call
  /\ trace = FreshRun.trace
  /\ locals = FreshRun.locals
  /\ generatedMetadata = FreshRun.generatedMetadata
  /\ resolved = FreshRun.resolved
  /\ coverage = FreshRun.coverage
  /\ resolvedQuestionCount = FreshRun.resolvedQuestionCount
  /\ heuristicConsulted = FreshRun.heuristicConsulted
  /\ draft = FreshRun.draft
  /\ critique = FreshRun.critique
  /\ finalQuiz = FreshRun.finalQuiz
  /\ result = FreshRun.result
  /\ response = FreshRun.response
  /\ runRequests = FreshRun.runRequests
  /\ parked = <<>>

AttemptHandlers ==
  \/ PostAttemptAnswer
  \/ AnswerAttemptRejected
  \/ AnswerAttemptFound
  \/ AnswerChoiceScored
  \/ AnswerGradeStarted
  \/ AnswerGradeStartThrows
  \/ AnswerGraded
  \/ AnswerGradeFailed
  \/ AnswerCreated
  \/ PostFinish
  \/ FinishAttemptMissing
  \/ FinishAlreadyFinished
  \/ FinishComputed
  \/ FinishUpdated
  \/ StrictReply
  \/ StrictReplyDowngrade
  \/ LooseReply

\* one request after the other
NextAttempts == AttemptHandlers \/ NextAttemptRequest

SpecAttempts == InitAttempts /\ [][NextAttempts]_vars

\* MaxRuns requests at once, each resumed at its awaits in any order
InitAttemptsConcurrent ==
  /\ env \in [MOCK_LLM : BOOLEAN, OPENAI_API_KEY : BOOLEAN]
  /\ schemaCounter = 0
  /\ providerRequests = 0
  /\ db = AttemptStore
  /\ op = FreshRun.op
  /\ pc = FreshRun.pc
  /\ llm = FreshRun.llm
  /\ call = FreshRun.call
  /\ trace = FreshRun.trace
  /\ locals = FreshRun.locals
  /\ generatedMetadata = FreshRun.generatedMetadata
  /\ resolved = FreshRun.resolved
  /\ coverage = FreshRun.coverage
  /\ resolvedQuestionCount = FreshRun.resolvedQuestionCount
  /\ heuristicConsulted = FreshRun.heuristicConsulted
  /\ draft = FreshRun.draft
  /\ critique = FreshRun.critique
  /\ finalQuiz = FreshRun.finalQuiz
  /\ result = FreshRun.result
  /\ response = FreshRun.response
  /\ runRequests = FreshRun.runRequests
  /\ parked = [i \in 1..(MaxRuns - 1) |-> FreshRun]

NextAttemptsConcurrent == AttemptHandlers \/ Switch

SpecAttemptsConcurrent == InitAttemptsConcurrent /\ [][NextAttemptsConcurrent]_vars

\* ------------------------------------------------------------------------
\* Properties
\* ------------------------------------------------------------------------
PipelineKinds == {"direct", "generate"}

\* the run of generateQuizIteratively has returned { quiz, metadata }
RunReturned == op.kind \in PipelineKinds /\ result.status = "returned"

ReturnedQuiz == result.value[1].quiz

\* the client of the operation was constructed in offline mode
OfflineClient == IsSome(llm) /\ llm[1].mockMode

OptProp(key, o, asJson(_)) == IF IsSome(o) THEN <<Prop(key, asJson(o[1]))>> ELSE <<>>

\* a question object serialised the way JSON.stringify would: absent fields omitted
QuestionAsJson(q) ==
  JObj(<<Prop("type", JStr(<<q.type>>)), Prop("prompt", JStr(q.prompt))>>
       \o OptProp("choices", q.choices, StringsAsJson)
       \o OptProp("correctChoiceIndex", q.correctChoiceIndex, JNum)
       \o OptProp("expectedAnswer", q.expectedAnswer, JStr)
       \o OptProp("rubric", q.rubric, JStr)
       \o OptProp("explanation", q.explanation, JStr))

QuizAsJson(quiz) ==
  JObj(<<Prop("title", JStr(quiz.title)), Prop("topic", JStr(quiz.topic)),
         Prop("summary", JStr(quiz.summary)),
         Prop("questions", JArr([i \in 1..Len(quiz.questions) |-> QuestionAsJson(quiz.questions[i])]))>>)

HasQuestionOfType(quiz, type) == \E i \in 1..Len(quiz.questions) : quiz.questions[i].type = type

\* C1: in offline mode, whatever the non-empty source list and the optional
\* inputs, a finished run has returned a quiz that validates against
\* finalQuizSchema, has at least 4 questions, and holds at least one
\* multiple_choice and at least one open_ended question.
C1_OfflineQuizValid ==
  (OfflineClient /\ op.kind = "direct" /\ pc = "done") =>
    /\ result.status = "returned"
    /\ IsSome(finalQuizSchema(QuizAsJson(ReturnedQuiz)))
    /\ Len(ReturnedQuiz.questions) >= 4
    /\ HasQuestionOfType(ReturnedQuiz, "multiple_choice")
    /\ HasQuestionOfType(ReturnedQuiz, "open_ended")

C1_Witness ==
  /\ OfflineClient /\ op.kind = "direct" /\ pc = "done" /\ result.status = "returned"
  /\ Len(op.input.sources) >= 2
  /\ op.input.questionCount = JNum(3)
  /\ IsSome(op.input.title) /\ IsSome(op.input.topic) /\ IsSome(op.input.description)
  /\ op.input.autoMetadata = JBool(TRUE)
  /\ op.input.focusPrompts # JUndef
  /\ Len(ReturnedQuiz.questions) = 4

IsPrefix(a, b) == Len(a) <= Len(b) /\ SubSeq(b, 1, Len(a)) = a

\* the events of a run in which every pass started and returned, in order
CanonicalPassTrace ==
  << <<"start", "metadata">>, <<"return", "metadata">>,
     <<"start", "coverage">>, <<"return", "coverage">>,
     <<"start", "draft">>, <<"return", "draft">>,
     <<"start", "critique">>, <<"return", "critique">>,
     <<"start", "final">>, <<"return", "final">> >>

\* C2: the passes of a run start in the order metadata, coverage, draft,
\* critique, final, each one only after the previous one has returned (the
\* events of a run are a prefix of the canonical sequence, the last one
\* possibly a throw in place of a return), and a run that has returned has
\* started and finished each pass exactly once.
C2_PassOrder ==
  op.kind \in PipelineKinds =>
    /\ LET n == Len(trace)
       IN \/ IsPrefix(trace, CanonicalPassTrace)
          \/ /\ n > 0
             /\ trace[n][1] = "throw"
             /\ IsPrefix(SubSeq(trace, 1, n - 1) \o << <<"return", trace[n][2]>> >>, CanonicalPassTrace)
    /\ result.status = "returned" => trace = CanonicalPassTrace

C2_Witness ==
  /\ RunReturned
  /\ ~OfflineClient
  /\ trace = CanonicalPassTrace
  /\ providerRequests > 5

\* C3: when the completion client fails inside a pass of a run, no later pass
\* is started, no quiz is returned and no quiz or question record exists;
\* once the failure has propagated the run is rejected with that very error
\* and POST /api/quizzes/generate has answered 500 without a quiz.
C3_FailedPassRejects ==
  (op.kind \in PipelineKinds /\ call.status = "threw") =>
    /\ trace # <<>>
    /\ trace[Len(trace)] = <<"throw", call.name>>
    /\ result.value = None
    /\ db.quizzes = <<>>
    /\ db.questions = <<>>
    /\ pc \in {"pipeline", "done"}
    /\ pc = "pipeline" => result.status = "none" /\ response = None
    /\ pc = "done" =>
         /\ result.status = "rejected"
         /\ result.error = call.error
         /\ op.kind = "generate" =>
              /\ IsSome(response)
              /\ response[1].status = 500
              /\ response[1].quiz = None

C3_Witness ==
  /\ op.kind = "generate"
  /\ pc = "done"
  /\ call.status = "threw"
  /\ call.name = "draft"
  /\ result.status = "rejected"
  /\ Len(call.requests) = 2

\* the fallback value the caller handed to the completeJson call in progress
ExpectedFallback ==
  CASE call.name = "metadata" -> metadataFallback
    [] call.name = "coverage" -> coverageFallback(resolved[1])
    [] call.name = "draft" -> draftFallback(coverage[1], resolved[1], resolvedQuestionCount[1])
    [] call.name = "critique" -> critiqueFallback
    [] call.name = "final" ->
         finalFallback(coverage[1], resolved[1], draft[1], resolvedQuestionCount[1])
    [] call.name = "grade" -> gradeFallback(op.input)
    [] call.name = "chat" -> chatFallback(op.input)

\* C4: with a client constructed in offline mode, every completeJson call
\* (pipeline passes, grading, chat) has returned exactly the caller's fallback
\* value, and no provider request has been issued, whether or not a
\* credential is configured.
C4_OfflineNeverContactsProvider ==
  (OfflineClient /\ call.name # "none") =>
    /\ call.status = "returned"
    /\ call.fallbackUsed
    /\ call.value = Some(ExpectedFallback)
    /\ call.requests = <<>>
    /\ providerRequests = 0

C4_Witness ==
  /\ OfflineClient
  /\ call.name = "final"
  /\ call.status = "returned"
  /\ ~call.keyAtStart
  /\ ~env.MOCK_LLM

\* the client of the operation was constructed in live mode
LiveClient == IsSome(llm) /\ ~llm[1].mockMode

SignalsSchemaUnsupported(error) ==
  /\ error.isError
  /\ \E i \in 1..Len(error.message) :
       error.message[i] \in {"json_schema", "JSON_SCHEMA", "response_format", "Response_Format",
                             "not supported", "Not Supported", "unsupported", "Unsupported"}

\* C6: in live mode a completeJson call issues at most two provider requests;
\* the first is the strict json_schema request; a second one exists only when
\* the first failed with an error signalling that schema-constrained output is
\* unsupported, and it is a json_object request with the same messages; any
\* other error of the first request and any error of the second one is the
\* error the call throws; the fallback value is never used.
C6_AtMostTwoRequests ==
  (LiveClient /\ call.name # "none") =>
    LET n == Len(call.requests)
    IN /\ n <= 2
       /\ n >= 1 =>
            /\ call.requests[1].mode = "json_schema"
            /\ call.requests[1].strict
            /\ call.requests[1].messages = call.messages
       /\ n = 2 =>
            /\ call.requests[2].mode = "json_object"
            /\ call.requests[2].messages = call.requests[1].messages
            /\ IsSome(call.firstError)
            /\ SignalsSchemaUnsupported(call.firstError[1])
       /\ (IsSome(call.firstError) /\ ~SignalsSchemaUnsupported(call.firstError[1])) =>
            /\ n = 1
            /\ call.status = "threw"
            /\ call.error = call.firstError
       /\ (n = 2 /\ call.status # "loose" /\ call.reply[1].k = "error") =>
            /\ call.status = "threw"
            /\ call.error = call.reply[1].error
       /\ ~call.fallbackUsed
       /\ call.status = "threw" => call.value = None

C6_Witness ==
  /\ LiveClient
  /\ Len(call.requests) = 2
  /\ call.status = "threw"
  /\ call.reply[1].k = "error"
  /\ call.error # call.firstError

\* the provider's reply is a completion that is empty, is not JSON, or is
\* JSON that breaks the schema of the call
BadCompletion ==
  /\ IsSome(call.reply)
  /\ call.reply[1].k = "completion"
  /\ \/ call.reply[1].content \in {"empty", "not_json"}
     \/ /\ call.reply[1].content = "json"
        /\ call.reply[1].json[1] \in InvalidJsons(call.schema)

\* C7: in live mode, when the provider's reply is empty, is not valid JSON or
\* does not validate against the schema, completeJson throws: it returns no
\* value and does not use the fallback value.
C7_BadReplyThrows ==
  (LiveClient /\ BadCompletion) =>
    /\ call.status = "threw"
    /\ IsSome(call.error)
    /\ call.value = None
    /\ ~call.fallbackUsed

C7_Witness ==
  /\ LiveClient
  /\ BadCompletion
  /\ call.reply[1].content = "json"
  /\ call.schema = "coverageSchema"
  /\ call.status = "threw"

\* C8: the quiz of a run that returned carries the title, topic and
\* description that were resolved right after pass 1, whatever the final pass
\* produced for them.
C8_ResolvedMetadataWins ==
  RunReturned =>
    /\ ReturnedQuiz.title = resolved[1].title
    /\ ReturnedQuiz.topic = resolved[1].topic
    /\ ReturnedQuiz.summary = resolved[1].description
    /\ ReturnedQuiz.questions = finalQuiz[1].questions

C8_Witness ==
  /\ RunReturned
  /\ LiveClient
  /\ finalQuiz[1].title # resolved[1].title
  /\ finalQuiz[1].topic # resolved[1].topic
  /\ finalQuiz[1].summary # resolved[1].description
  /\ resolved[1].title = <<"T">>

DraftStarted == \E i \in 1..Len(trace) : trace[i] = <<"start", "draft">>

\* the one question count is what the prompts, the fallback builders and the
\* returned metadata carry
CountUsedEverywhere ==
  op.kind \in PipelineKinds =>
    /\ IsSome(resolvedQuestionCount) <=> IsSome(coverage)
    /\ IsSome(resolvedQuestionCount) <=> DraftStarted
    /\ IsSome(resolvedQuestionCount) =>
         LET count == resolvedQuestionCount[1]
         IN /\ call.name = "draft" => call.messages[2].content.questionCount = count
            /\ call.name = "final" => call.messages[2].content.questionCount = count
            /\ (OfflineClient /\ IsSome(draft)) => Len(draft[1].questions) = count
            /\ (OfflineClient /\ IsSome(finalQuiz)) => Len(finalQuiz[1].questions) = count
            /\ RunReturned => result.value[1].metadata.resolvedMetadata.questionCount = count

CountNeverChanges ==
  IsSome(resolvedQuestionCount) => resolvedQuestionCount' = resolvedQuestionCount

\* C9: the question count is resolved once, when the coverage pass has
\* returned and before the draft pass starts; the draft prompt, the final
\* prompt, both fallback builders and the returned metadata carry that value;
\* no later step changes it.
C9_CountResolvedOnce == [](CountUsedEverywhere) /\ [][CountNeverChanges]_vars

C9_Witness ==
  /\ RunReturned
  /\ LiveClient
  /\ resolvedQuestionCount = Some(20)
  /\ Len(draft[1].questions) = 1
  /\ call.messages[2].content.questionCount = 20

RoundToNearest(q) == IF Len(q.v) = 1 THEN q.v[1] ELSE q.v[1] + 1

ClampInto(n, low, high) == IF n < low THEN low ELSE IF n > high THEN high ELSE n

\* C10: when the caller's questionCount is a finite number the resolved count
\* is that number rounded to the nearest integer and clamped into 4..20, and
\* the heuristic is not consulted; otherwise the resolved count is
\* chooseQuestionCountFromSources(sources, coverage of pass 2).
C10_SizingRule ==
  (op.kind \in PipelineKinds /\ IsSome(resolvedQuestionCount)) =>
    LET q == locals[1].input.questionCount
    IN IF q.k = "number"
       THEN /\ resolvedQuestionCount[1] = ClampInto(RoundToNearest(q), 4, 20)
            /\ ~heuristicConsulted
       ELSE /\ resolvedQuestionCount[1] =
                 chooseQuestionCountFromSources(locals[1].input.sources, coverage[1])
            /\ heuristicConsulted

C10_Witness ==
  /\ op.kind = "direct"
  /\ locals[1].input.questionCount = JHalf(7)
  /\ resolvedQuestionCount = Some(8)
  /\ ~heuristicConsulted
  /\ call.name = "draft"

\* chooseQuestionCountFromSources has been applied and has returned
CountChosen == op.kind = "chooseQuestionCount" /\ pc = "done"

ChosenCount == result.value[1]

\* C11: for every non-empty source list and every blueprint, empty lists
\* included, chooseQuestionCountFromSources returns an integer from 4 to 20.
C11_CountInRange == CountChosen => ChosenCount \in 4..20

C11_Witness ==
  /\ CountChosen
  /\ op.input.coverage.concepts = <<>>
  /\ op.input.coverage.misconceptions = <<>>
  /\ op.input.coverage.learningGoals = <<>>
  /\ Len(op.input.sources) = 1
  /\ ChosenCount = 6

RECURSIVE TotalChars(_)
TotalChars(sources) ==
  IF Len(sources) = 0 THEN 0
  ELSE sources[Len(sources)].content.len + TotalChars(SubSeq(sources, 1, Len(sources) - 1))

\* the smallest integer that is at least a / b
CeilingOf(a, b) == CHOOSE q \in 0..a : q * b >= a /\ (q = 0 \/ (q - 1) * b < a)

ReferenceBase(totalChars) ==
  CASE totalChars < 2500 -> 6
    [] totalChars \in 2500..5999 -> 8
    [] totalChars \in 6000..11999 -> 10
    [] totalChars \in 12000..24999 -> 12
    [] totalChars >= 25000 -> 14

ReferenceSignals(cov) ==
  Len(cov.concepts) + Len(cov.misconceptions) + CeilingOf(Len(cov.learningGoals), 2)

ReferenceBoost(cov) ==
  LET raw == CeilingOf(ReferenceSignals(cov), 5) - 1
  IN IF raw < 0 THEN 0 ELSE IF raw > 4 THEN 4 ELSE raw

\* C12: chooseQuestionCountFromSources equals clamp(base + boost, 4, 20) with
\* base 6 / 8 / 10 / 12 / 14 by the band of the summed content lengths,
\* signals = #concepts + #misconceptions + ceil(#learningGoals / 2) and
\* boost = min(4, max(0, ceil(signals / 5) - 1)), band limits included.
C12_CountMatchesReference ==
  CountChosen =>
    ChosenCount =
      ClampInto(ReferenceBase(TotalChars(op.input.sources)) + ReferenceBoost(op.input.coverage), 4, 20)

C12_Witness ==
  /\ CountChosen
  /\ TotalChars(op.input.sources) = 12000
  /\ ReferenceSignals(op.input.coverage) = 26
  /\ ChosenCount = 16

\* C13: with the blueprint held fixed, a source list with at least as many
\* characters in total never gets a smaller count.
C13_CountMonotoneInChars ==
  CountChosen =>
    \A other \in SizingSourceLists :
      TotalChars(op.input.sources) <= TotalChars(other) =>
        ChosenCount <= chooseQuestionCountFromSources(other, op.input.coverage)

C13_Witness ==
  /\ CountChosen
  /\ TotalChars(op.input.sources) = 5999
  /\ ChosenCount = 8
  /\ \E other \in SizingSourceLists :
       /\ TotalChars(other) = 6000
       /\ chooseQuestionCountFromSources(other, op.input.coverage) = 10

\* the blueprint the coverage pass falls back to: 3 concepts, 1 misconception, 1 goal
DefaultBlueprintShape == [concepts |-> Items(3), misconceptions |-> Items(1), learningGoals |-> Items(1)]

\* C14: an offline run without an explicit questionCount returns a quiz of
\* exactly chooseQuestionCountFromSources(sources, default blueprint)
\* questions (6 for a single 500-character source); its question i, counted
\* from 0, is multiple_choice when i is even and open_ended when i is odd.
C14_OfflineAutoSizedQuiz ==
  (OfflineClient /\ op.kind = "direct" /\ result.status = "returned"
     /\ op.input.questionCount.k # "number") =>
    LET questions == ReturnedQuiz.questions
    IN /\ Len(questions) = chooseQuestionCountFromSources(op.input.sources, DefaultBlueprintShape)
       /\ (Len(op.input.sources) = 1 /\ op.input.sources[1].content.len = 500) => Len(questions) = 6
       /\ \A i \in 0..(Len(questions) - 1) :
            questions[i + 1].type = IF i % 2 = 0 THEN "multiple_choice" ELSE "open_ended"

C14_Witness ==
  /\ OfflineClient /\ op.kind = "direct" /\ result.status = "returned"
  /\ op.input.questionCount = JNaN
  /\ Len(op.input.sources) = 1
  /\ op.input.sources[1].content.len = 500
  /\ Len(ReturnedQuiz.questions) = 6
  /\ ReturnedQuiz.questions[6].type = "open_ended"

PassNames == {"metadata", "coverage", "draft", "critique", "final"}

\* the user message of the pass in progress (or of the last pass)
PassUserContent == call.messages[2].content

\* C15: the focus list of a run is the first 12 entries, in their order, of
\* the coerced focusPrompts of the caller; no focus block of a pass's prompt
\* and no returned metadata holds a 13th or later entry.
C15_FocusListCappedAtTwelve ==
  (op.kind \in PipelineKinds /\ IsSome(locals)) =>
    LET coerced == coerceStringArrayItems(locals[1].input.focusPrompts)
        kept == [i \in 1..(IF Len(coerced) < 12 THEN Len(coerced) ELSE 12) |-> coerced[i]]
    IN /\ locals[1].focusPrompts = kept
       /\ (call.name \in PassNames /\ "focusGuidance" \in DOMAIN PassUserContent) =>
            \A i \in 13..Len(coerced) : ~Includes(PassUserContent.focusGuidance, coerced[i])
       /\ RunReturned => result.value[1].metadata.resolvedMetadata.focusedTroublePrompts = kept

C15_Witness ==
  /\ RunReturned
  /\ Len(coerceStringArrayItems(locals[1].input.focusPrompts)) = 13
  /\ Len(result.value[1].metadata.resolvedMetadata.focusedTroublePrompts) = 12
  /\ locals[1].focusPrompts[2] = <<"missed #", "3">>
  /\ locals[1].focusPrompts[12] = <<"missed #", "13">>

\* the user message of the pass in progress carries the priority-focus-areas block
FocusBlockPresent ==
  /\ "focusGuidance" \in DOMAIN PassUserContent
  /\ Includes(PassUserContent.focusGuidance,
              <<"\nPriority focus areas (questions the learner has struggled with):\n">>)

\* C16: when the focus list of a run is non-empty, the user message of each
\* of the five passes carries the priority-focus-areas block; when the list
\* is empty, no pass's message carries it.
C16_FocusBlockInEveryPass ==
  (op.kind \in PipelineKinds /\ call.name \in PassNames) =>
    (FocusBlockPresent <=> locals[1].focusPrompts # <<>>)

\* what the caller supplied for a field, trimmed; <<>> when absent or blank
Supplied(o) == IF o = <<>> THEN <<>> ELSE Trim(o[1])

AutoMetadataOn == JsTruthy(locals[1].input.autoMetadata)

\* precedence with the generated value taken whenever autoMetadata is on
PreferGeneratedAlways(supplied, generated, default) ==
  IF supplied # <<>> THEN supplied
  ELSE IF AutoMetadataOn THEN generated
  ELSE default

\* precedence with the generated value taken when autoMetadata is on and the
\* value is not the empty string
PreferGeneratedIfNonEmpty(supplied, generated, default) ==
  IF supplied # <<>> THEN supplied
  ELSE IF AutoMetadataOn /\ generated # <<>> THEN generated
  ELSE default

\* C17 as the specification states it: for each of title, topic and
\* description, the trimmed non-empty value of the caller is used; otherwise,
\* with autoMetadata on, the generated value of pass 1 is used; otherwise the
\* default ("Self-Learning Quiz" for the topic, "<resolved topic> Quiz" for
\* the title).
C17_GeneratedUsedWheneverOn ==
  (op.kind \in PipelineKinds /\ IsSome(resolved)) =>
    LET input == locals[1].input
        generated == generatedMetadata[1]
    IN /\ resolved[1].topic =
            PreferGeneratedAlways(Supplied(input.topic), generated.topic, <<"Self-Learning Quiz">>)
       /\ resolved[1].title =
            PreferGeneratedAlways(Supplied(input.title), generated.title,
                                  resolved[1].topic \o <<" Quiz">>)
       /\ resolved[1].description =
            PreferGeneratedAlways(Supplied(input.description), generated.description,
                                  <<"A mixed quiz generated from the source content.">>)

\* C17: for each of title, topic and description, the trimmed non-empty
\* value of the caller is used; otherwise, with autoMetadata on and a
\* non-empty generated value, the generated value of pass 1 is used;
\* otherwise the default ("Self-Learning Quiz" for the topic,
\* "<resolved topic> Quiz" for the title).  With autoMetadata off a generated
\* value is never used.
C17_MetadataPrecedence ==
  (op.kind \in PipelineKinds /\ IsSome(resolved)) =>
    LET input == locals[1].input
        generated == generatedMetadata[1]
    IN /\ resolved[1].topic =
            PreferGeneratedIfNonEmpty(Supplied(input.topic), generated.topic, <<"Self-Learning Quiz">>)
       /\ resolved[1].title =
            PreferGeneratedIfNonEmpty(Supplied(input.title), generated.title,
                                      resolved[1].topic \o <<" Quiz">>)
       /\ resolved[1].description =
            PreferGeneratedIfNonEmpty(Supplied(input.description), generated.description,
                                      <<"A mixed quiz generated from the source content.">>)

C17_Witness ==
  /\ op.kind = "direct"
  /\ IsSome(resolved)
  /\ AutoMetadataOn
  /\ generatedMetadata[1].topic = <<>>
  /\ locals[1].input.topic = Some(<<" ">>)
  /\ locals[1].input.title = None
  /\ resolved[1].topic = <<"Self-Learning Quiz">>
  /\ resolved[1].title = <<"Self-Learning Quiz", " Quiz">>

AllNonEmpty(list) == \A i \in 1..Len(list) : list[i] # <<>>

\* a coverage reply whose lists, once coerced, are shorter than 1 goal,
\* 3 concepts or 1 misconception
BelowCoverageMinimums(j) ==
  \/ Len(coerceStringArrayItems(Field(j, "learningGoals"))) < 1
  \/ Len(coerceStringArrayItems(Field(j, "concepts"))) < 3
  \/ Len(coerceStringArrayItems(Field(j, "misconceptions"))) < 1

\* C18: a coverage blueprint that reaches the sizing decision and the later
\* passes has at least 1 learning goal, 3 concepts and 1 misconception, all
\* of them non-empty strings; a live coverage reply whose lists are shorter
\* than that after coercion makes the pass throw and the run reject: no
\* blueprint is kept and no count is resolved.
C18_CoverageMinimums ==
  op.kind \in PipelineKinds =>
    /\ IsSome(coverage) =>
         /\ Len(coverage[1].learningGoals) >= 1
         /\ Len(coverage[1].concepts) >= 3
         /\ Len(coverage[1].misconceptions) >= 1
         /\ AllNonEmpty(coverage[1].learningGoals)
         /\ AllNonEmpty(coverage[1].concepts)
         /\ AllNonEmpty(coverage[1].misconceptions)
    /\ (LiveClient /\ call.name = "coverage" /\ IsSome(call.reply)
          /\ call.reply[1].content = "json" /\ BelowCoverageMinimums(call.reply[1].json[1])) =>
         /\ call.status = "threw"
         /\ coverage = None
         /\ resolvedQuestionCount = None
         /\ pc = "done" => result.status = "rejected"

C18_Witness ==
  /\ op.kind = "direct"
  /\ LiveClient
  /\ call.name = "coverage"
  /\ IsSome(call.reply)
  /\ call.reply[1].content = "json"
  /\ Len(Field(call.reply[1].json[1], "concepts").v) = 5
  /\ Len(coerceStringArrayItems(Field(call.reply[1].json[1], "concepts"))) = 2
  /\ result.status = "rejected"

\* the key order the claim names
ClaimedKeyOrder == <<"name", "title", "label", "concept", "text", "description", "summary">>

\* String(value) of a number or a boolean
StringOf(e) == IF e.k = "boolean" THEN BoolToString(e.v[1]) ELSE NumberToString(e.v)

\* the trimmed value of the first of the keys whose value is a string that is
\* not blank; <<>> when there is none
RECURSIVE FirstTextUnder(_, _)
FirstTextUnder(e, keys) ==
  IF keys = <<>> THEN None
  ELSE LET val == Field(e, Head(keys))
       IN IF val.k = "string" /\ Trim(val.v) # <<>>
          THEN Some(Trim(val.v))
          ELSE FirstTextUnder(e, Tail(keys))

\* what one array element contributes; objects are JavaScript objects, arrays included
ReferenceText(e) ==
  IF e.k = "string" THEN (IF Trim(e.v) = <<>> THEN None ELSE Some(Trim(e.v)))
  ELSE IF e.k \in {"number", "NaN", "boolean"} THEN Some(StringOf(e))
  ELSE IF e.k \in {"object", "array"}
  THEN IF FirstTextUnder(e, ClaimedKeyOrder) # None THEN FirstTextUnder(e, ClaimedKeyOrder)
       ELSE IF JsonStringify(e) = <<"{", "}">> THEN None
       ELSE Some(JsonStringify(e))
  ELSE None

ReferenceCoerce(input) ==
  IF input.k # "array" THEN <<>>
  ELSE LET kept == SelectSeq([i \in 1..Len(input.v) |-> ReferenceText(input.v[i])],
                             LAMBDA t : t # None)
       IN [i \in 1..Len(kept) |-> kept[i][1]]

Coerced == op.kind = "coerceStringArrayItems" /\ pc = "done"

\* C19: coerceStringArrayItems returns the empty list for a non-array; for an
\* array it goes through the elements in order: a string is kept trimmed
\* unless blank; a number or boolean is stringified; an object yields the
\* trimmed value of the first of name, title, label, concept, text,
\* description, summary that holds a non-blank string, else its JSON text
\* unless that is "{}"; anything else is dropped.  The output keeps the
\* input order and holds no empty string.
C19_CoerceMatchesReference ==
  Coerced =>
    /\ result.value[1] = ReferenceCoerce(op.input)
    /\ AllNonEmpty(result.value[1])
    /\ op.input.k # "array" => result.value[1] = <<>>

C19_Witness ==
  /\ Coerced
  /\ op.input.k = "array"
  /\ Len(op.input.v) = 2
  /\ op.input.v[1].k = "object"
  /\ Field(op.input.v[1], "summary") = JStr(<<"S">>)
  /\ op.input.v[2] = JObj(<<Prop("note", JUndef)>>)
  /\ result.value[1] = << <<"Y">> >>

IsDigit(c) == c \in {"0", "1", "2", "3", "4", "5", "6", "7", "8", "9"}

DigitOf(c) == CHOOSE d \in 0..9 : ToString(d) = c

\* the number a non-empty run of digits denotes, most significant digit first
RECURSIVE NumberDenoted(_)
NumberDenoted(digits) ==
  IF Len(digits) = 1 THEN DigitOf(digits[1])
  ELSE LET rest == Tail(digits)
           weight == CHOOSE w \in {1, 10, 100, 1000, 10000} : \E k \in 0..4 : k = Len(rest) /\ w = 10 ^ k
       IN DigitOf(digits[1]) * weight + NumberDenoted(rest)

\* the text reads as the integer n in base 10: optional blanks, an optional
\* sign, then a longest run of digits that denotes n; what follows is ignored
ParsesAsInteger(text, n) ==
  \E from \in 1..Len(text), to \in 1..Len(text) :
    /\ from <= to
    /\ \A i \in from..to : IsDigit(text[i])
    /\ to < Len(text) => ~IsDigit(text[to + 1])
    /\ \E signAt \in {from - 1, from} :
         /\ signAt < from => signAt >= 1 /\ text[signAt] \in {"+", "-"}
         /\ \A i \in 1..(signAt - 1) : text[i] = " "
         /\ signAt = from => \A i \in 1..(from - 1) : text[i] = " "
         /\ n = (IF signAt < from /\ text[signAt] = "-" THEN 0 - 1 ELSE 1)
                * NumberDenoted(SubSeq(text, from, to))

Scored == op.kind = "scoreMultipleChoice" /\ pc = "done"

\* C20: scoreMultipleChoice returns correct with score 1 exactly when the
\* answer text parses as a base-10 integer equal to correctIndex, and
\* incorrect with score 0 otherwise, every answer without a digit included;
\* no other correctness or score is returned, and the score is 1 exactly
\* when the correctness is correct.
C20_ScoreMultipleChoice ==
  Scored =>
    LET outcome == result.value[1]
        index == op.input.correctIndex
        answer == op.input.userAnswer
    IN /\ outcome \in {[correctness |-> "correct", score |-> 1],
                        [correctness |-> "incorrect", score |-> 0]}
       /\ outcome.correctness = "correct" <=>
            (index.k = "number" /\ Len(index.v) = 1 /\ ParsesAsInteger(answer, index.v[1]))
       /\ (\A i \in 1..Len(answer) : ~IsDigit(answer[i])) => outcome.score = 0

C20_Witness ==
  /\ Scored
  /\ op.input.correctIndex = JNum(12)
  /\ op.input.userAnswer = <<"+", "1", "2">>
  /\ result.value[1] = [correctness |-> "correct", score |-> 1]

GradedOffline == op.kind = "grade" /\ pc = "done" /\ IsSome(llm) /\ llm[1].mockMode

\* part occurs in text as a run of consecutive characters
Contains(text, part) ==
  \E at \in 0..(Len(text) - Len(part)) : \A i \in 1..Len(part) : text[at + i] = part[i]

\* C21: offline, gradeOpenEndedAnswer returns correct with confidence 0.8
\* when the expected answer is non-empty and the lower-cased learner answer
\* contains the first 12 characters of the lower-cased expected answer, and
\* partially_correct with confidence 0.55 in every other case; it never
\* returns incorrect and the followup is always the same suggestion.
\* Confidences are counted in hundredths.
C21_OfflineGrade ==
  GradedOffline =>
    /\ result.status = "returned"
    /\ LET grade == result.value[1]
           expected == IF IsSome(op.input.expectedAnswer)
                       THEN ToLowerCase(op.input.expectedAnswer[1]) ELSE <<>>
           prefix == [i \in 1..(IF Len(expected) < 12 THEN Len(expected) ELSE 12) |-> expected[i]]
           hit == expected # <<>> /\ Contains(ToLowerCase(op.input.userAnswer), prefix)
       IN /\ grade.correctness = (IF hit THEN "correct" ELSE "partially_correct")
          /\ grade.confidence = (IF hit THEN 80 ELSE 55)
          /\ grade.correctness # "incorrect"
          /\ grade.followup = <<"Revisit the source and include one concrete example in your next attempt.">>

\* the learner answer holds the first 12 characters of the expected answer
\* but not all of it
C21_Witness ==
  /\ GradedOffline
  /\ result.status = "returned"
  /\ result.value[1].correctness = "correct"
  /\ ~Contains(ToLowerCase(op.input.userAnswer), ToLowerCase(op.input.expectedAnswer[1]))

\* completeJson calls the operation in progress has started so far
CallsStarted == Cardinality({i \in 1..Len(trace) : trace[i][1] = "start"})

\* C22: operations that interleave at their awaits share no mutable state,
\* schema naming included: the schema name of a request counts the requests
\* of the client that sends it, whatever other operations have sent.
C22_SchemaNamesPerClient ==
  \A i \in 1..Len(call.requests) :
    call.requests[i].strict => call.requests[i].schemaName = CallsStarted - 1

AllRuns == <<RunState>> \o parked

RunsOfKind(kinds) == Cardinality({i \in 1..Len(AllRuns) : AllRuns[i].op.kind \in kinds})

RECURSIVE SumRunRequests(_)
SumRunRequests(runs) ==
  IF runs = <<>> THEN 0 ELSE Head(runs).runRequests + SumRunRequests(Tail(runs))

\* C23 as stated: a pipeline run issues at most 5 provider requests, one per
\* pass, so N concurrent runs issue at most 5N.
C23_AtMostFivePerRun ==
  /\ op.kind \in PipelineKinds => runRequests <= 5 /\ Len(call.requests) <= 1
  /\ providerRequests <= 5 * RunsOfKind(PipelineKinds) + RunsOfKind({"grade"})

\* C23 amended: a pipeline run issues at most 10 provider requests, at most
\* two per pass (the json_schema request and one json_object retry), so N
\* concurrent runs issue at most 10N; every request is issued by one run.
C23_AtMostTenPerRun ==
  /\ Len(call.requests) <= 2
  /\ op.kind \in PipelineKinds => runRequests <= 2 * CallsStarted /\ CallsStarted <= 5
  /\ op.kind = "grade" => runRequests <= 2
  /\ providerRequests = SumRunRequests(AllRuns)
  /\ providerRequests <= 10 * RunsOfKind(PipelineKinds) + 2 * RunsOfKind({"grade"})

\* two pipeline runs, every pass of both downgraded to json_object
C23_Witness ==
  /\ op.kind \in PipelineKinds
  /\ result.status = "returned"
  /\ runRequests = 10
  /\ providerRequests = 20

\* C24: the offline flag and the credential that govern a client's calls are
\* the values read when the client was constructed: a completeJson call
\* answers with the fallback exactly when the client was built offline,
\* sends requests only with the credential it was built with, and fails for
\* a missing credential only when the credential was missing at construction.
C24_ConstructionValuesGovern ==
  (IsSome(llm) /\ call.name # "none") =>
    /\ call.fallbackUsed = llm[1].mockMode
    /\ call.requests # <<>> => llm[1].apiKey
    /\ call.error = Some(MissingKeyError) => ~llm[1].mockMode /\ ~llm[1].apiKey

\* sourceIds is missing, not an array, or an empty array
SourceIdsInvalid(body) == body.sourceIds.k # "array" \/ body.sourceIds.v = <<>>

\* sourceIds is a non-empty array none of whose entries is the id of a stored source
SourceIdsUnmatched(body) ==
  /\ ~SourceIdsInvalid(body)
  /\ \A i \in 1..Len(body.sourceIds.v), d \in 1..Len(db.sources) :
       db.sources[d].id # body.sourceIds.v[i].v

\* C25: POST /api/quizzes/generate with missing, non-array or empty sourceIds
\* answers 400, with sourceIds matching no stored source 404, and in both
\* cases no pipeline run starts, no provider request is issued and no quiz
\* or question record is created; no other request is answered 400 or 404.
C25_InvalidGenerateRejected ==
  op.kind = "generate" =>
    /\ SourceIdsInvalid(op.input) =>
         response = Some([status |-> 400, error |-> Some(<<"sourceIds is required.">>), quiz |-> None])
    /\ (SourceIdsUnmatched(op.input) /\ pc = "done") =>
         response = Some([status |-> 404, error |-> Some(<<"No sources found for sourceIds.">>),
                          quiz |-> None])
    /\ (SourceIdsInvalid(op.input) \/ SourceIdsUnmatched(op.input)) =>
         /\ llm = None /\ locals = None /\ call = NoCall /\ trace = <<>> /\ result = NoResult
         /\ providerRequests = 0 /\ runRequests = 0
         /\ db.quizzes = <<>> /\ db.questions = <<>>
    /\ (IsSome(response) /\ response[1].status \in {400, 404}) =>
         SourceIdsInvalid(op.input) \/ SourceIdsUnmatched(op.input)

C25_Witness ==
  /\ op.kind = "generate"
  /\ pc = "done"
  /\ op.input.sourceIds = JArr(<<JStr(<<"s9">>)>>)
  /\ IsSome(response) /\ response[1].status = 404

Ranked == op.kind = "getTroubleQuestionCandidates" /\ pc = "done"

\* the stored answers with a score below 0.5
MissedPlaces == {i \in 1..Len(op.input) : op.input[i].score \in {JNum(0)}}

MissesOf(questionId) == {i \in MissedPlaces : op.input[i].questionId = questionId}

\* C29: getTroubleQuestionCandidates returns exactly one candidate per
\* distinct question with at least one stored answer scored below 0.5; its
\* missCount is the number of such answers and its lastMissedAt the latest
\* of their creation times; candidates are ordered by missCount descending,
\* ties broken by lastMissedAt descending, whatever the order of storage.
C29_TroubleCandidatesRanked ==
  Ranked =>
    LET candidates == result.value[1]
    IN /\ {candidates[i].questionId : i \in 1..Len(candidates)}
            = {op.input[i].questionId : i \in MissedPlaces}
       /\ \A i, j \in 1..Len(candidates) :
            candidates[i].questionId = candidates[j].questionId => i = j
       /\ \A i \in 1..Len(candidates) :
            /\ candidates[i].missCount = Cardinality(MissesOf(candidates[i].questionId))
            /\ \E m \in MissesOf(candidates[i].questionId) :
                 /\ candidates[i].lastMissedAt = op.input[m].createdAt
                 /\ \A n \in MissesOf(candidates[i].questionId) :
                      op.input[n].createdAt <= op.input[m].createdAt
       /\ \A i, j \in 1..Len(candidates) :
            i < j => \/ candidates[i].missCount > candidates[j].missCount
                     \/ /\ candidates[i].missCount = candidates[j].missCount
                        /\ candidates[i].lastMissedAt >= candidates[j].lastMissedAt

\* two questions missed equally often: the one missed last is ranked first
\* although the other one's answer comes first in the table
C29_Witness ==
  /\ Ranked
  /\ Len(result.value[1]) = 2
  /\ result.value[1][1].missCount = result.value[1][2].missCount
  /\ result.value[1][1].lastMissedAt > result.value[1][2].lastMissedAt
  /\ op.input[1].questionId = result.value[1][2].questionId
  /\ op.input[1].score = JNum(0)

\* the same input with every source content cut after its first 7000 characters
ClippedInput(input) ==
  [input EXCEPT !.sources =
     [i \in 1..Len(input.sources) |->
        [input.sources[i] EXCEPT !.content =
           [len |-> IF @.len > 7000 THEN 7000 ELSE @.len, head |-> @.head,
            rest |-> IF @.len > 7000 THEN "" ELSE @.rest]]]]

\* C28: content past the first 7000 characters of a source influences
\* nothing: a run builds the prompts, resolves the question count and returns
\* the number of questions that the run on the clipped input does.
C28_ContentPastClipIgnored ==
  (op.kind = "direct" /\ IsSome(locals)) =>
    LET twin == PipelineLocals(ClippedInput(op.input))
    IN /\ locals[1].sourcePacket = twin.sourcePacket
       /\ IsSome(resolvedQuestionCount) =>
            resolvedQuestionCount[1] = resolveQuestionCount(twin, coverage[1])
       /\ RunReturned =>
            Len(ReturnedQuiz.questions) = resolveQuestionCount(twin, coverage[1])

\* the candidates of the stored answers, and how many of them reuse_exact takes
TroubleCandidates == getTroubleQuestionCandidates(db.answers, StoreWithQuizzes.questions)

TroubleModeValid == op.input.mode \in {JStr(<<"reuse_exact">>), JStr(<<"regenerate_similar">>)}

ReuseLimit ==
  IF op.input.questionCount.k = "number"
  THEN Max(MinQuestions, Min(MaxQuestions, op.input.questionCount.v[1]))
  ELSE MaxQuestions

NoQuizCreated ==
  /\ db.quizzes = StoreWithQuizzes.quizzes
  /\ db.questions = StoreWithQuizzes.questions

\* C30: POST /api/quizzes/custom/trouble with an invalid mode (400) or with
\* no missed answer (404) creates no quiz; in reuse_exact mode with at least
\* one candidate it persists exactly one quiz whose questions are the
\* top-ranked candidates in rank order, min(number of candidates, clamped
\* requested count when given, 20) of them and at least one, and it issues no
\* provider request.
C30_TroubleReuseExact ==
  op.kind = "trouble" =>
    /\ ~TroubleModeValid =>
         /\ pc = "done" /\ IsSome(response) /\ response[1].status = 400
         /\ NoQuizCreated
    /\ (TroubleModeValid /\ TroubleCandidates = <<>> /\ pc = "done") =>
         /\ IsSome(response) /\ response[1].status = 404
         /\ NoQuizCreated
    /\ op.input.mode = JStr(<<"reuse_exact">>) =>
         /\ providerRequests = 0 /\ runRequests = 0 /\ call = NoCall
         /\ pc # "done" => NoQuizCreated
         /\ (pc = "done" /\ TroubleCandidates # <<>>) =>
              LET count == Min(Len(TroubleCandidates), ReuseLimit)
                  before == Len(StoreWithQuizzes.questions)
              IN /\ count >= 1
                 /\ Len(db.quizzes) = Len(StoreWithQuizzes.quizzes) + 1
                 /\ SubSeq(db.quizzes, 1, Len(StoreWithQuizzes.quizzes)) = StoreWithQuizzes.quizzes
                 /\ Len(db.questions) = before + count
                 /\ SubSeq(db.questions, 1, before) = StoreWithQuizzes.questions
                 /\ \A i \in 1..count :
                      LET row == db.questions[before + i]
                          candidate == TroubleCandidates[i]
                      IN /\ row.quizId = Len(db.quizzes)
                         /\ row.questionIndex = i - 1
                         /\ row.prompt = candidate.prompt
                         /\ row.type = candidate.type
                         /\ row.choicesJson = candidate.choicesJson
                         /\ row.expectedAnswer = candidate.expectedAnswer
                 /\ IsSome(response) /\ response[1].status = 200

\* every question was missed once and no count was asked for: the quiz saved
\* holds the MaxQuestions candidates missed last
C30_Witness ==
  /\ op.kind = "trouble"
  /\ pc = "done"
  /\ op.input.mode = JStr(<<"reuse_exact">>)
  /\ op.input.questionCount = JUndef
  /\ Len(TroubleCandidates) = MaxQuestions + MinQuestions
  /\ Len(db.questions) = Len(StoreWithQuizzes.questions) + MaxQuestions
  /\ db.questions[Len(StoreWithQuizzes.questions) + 1].prompt = TroubleCandidates[1].prompt
  /\ TroubleCandidates[1].questionId = MaxQuestions + MinQuestions

\* the step that answers an answer submission with 200
AnswerAccepted ==
  /\ op.kind = "answer"
  /\ op'.kind = "answer"
  /\ response = None
  /\ IsSome(response') /\ response'[1].status = 200

\* C27: each accepted answer submission creates exactly one new answer
\* record; a resubmission for the same question of the same attempt adds a
\* further record, and every record stored before stays as it was.
C27_AnswerRecordsAppendOnly ==
  [][/\ Len(db'.answers) >= Len(db.answers)
     /\ SubSeq(db'.answers, 1, Len(db.answers)) = db.answers
     /\ AnswerAccepted =>
          /\ Len(db'.answers) = Len(db.answers) + 1
          /\ db'.answers[Len(db'.answers)].attemptId = op.input.attemptId
          /\ db'.answers[Len(db'.answers)].questionId = op.input.questionId[1]
          /\ db'.answers[Len(db'.answers)].userAnswer = op.input.userAnswer[1]
     /\ ~AnswerAccepted => db'.answers = db.answers]_vars

\* a second accepted answer to the same question of the same attempt: both
\* records are in the table
C27_Witness ==
  /\ op.kind = "answer"
  /\ pc = "done"
  /\ IsSome(response) /\ response[1].status = 200
  /\ SubmissionsOf(db, op.input.attemptId, op.input.questionId[1]) = MaxSubmissions
  /\ db.answers[Len(db.answers)].questionId = op.input.questionId[1]
  /\ db.answers[Len(db.answers) - 1].questionId = op.input.questionId[1]
  /\ db.answers[Len(db.answers)].userAnswer # db.answers[Len(db.answers) - 1].userAnswer

\* a request whose handler has started generateQuizIteratively
RunsPipeline == op.kind \in {"generate", "trouble"} /\ IsSome(locals)

\* C26: every HTTP request that runs the pipeline eventually receives
\* exactly one response; when the pipeline fails, that response is a single
\* error carrying the failure message.
C26_PipelineRequestAnswered ==
  /\ [](RunsPipeline => <>IsSome(response))
  /\ [][(RunsPipeline /\ IsSome(response)) => response' = response]_vars
  /\ []((RunsPipeline /\ result.status = "rejected") =>
          response = Some([status |-> 500, error |-> Some(generateErrorMessage(result.error[1])),
                           quiz |-> None]))

PromptBuilt == op.kind = "buildQuizChatPrompt" /\ pc = "done"

\* the places of the supplied answers that are for the question at place q
AnswersTo(q) ==
  {i \in 1..Len(op.input.answers) : op.input.answers[i].questionId = op.input.quiz.questions[q].id}

\* C31: buildQuizChatPrompt lists every quiz question once, in quiz order;
\* a question with no answer in the supplied list is marked unanswered, and
\* a question with several answers shows the last one in the supplied order
\* (answer text, result, feedback), never an earlier one.
C31_HistoryShowsLatestAnswer ==
  PromptBuilt =>
    LET history == result.value[1].history
        questions == op.input.quiz.questions
    IN /\ Len(history) = Len(questions)
       /\ \A q \in 1..Len(questions) :
            /\ history[q].index = q
            /\ history[q].type = questions[q].type
            /\ history[q].prompt = Trim(questions[q].prompt)
            /\ (AnswersTo(q) = {}) <=> (history[q].status = "unanswered")
            /\ AnswersTo(q) # {} =>
                 \E last \in AnswersTo(q) :
                   /\ \A i \in AnswersTo(q) : i <= last
                   /\ history[q].answer = Trim(op.input.answers[last].userAnswer)
                   /\ history[q].result = op.input.answers[last].correctness
                   /\ history[q].feedback =
                        (IF op.input.answers[last].feedback = <<>> THEN <<"N/A">>
                         ELSE Trim(op.input.answers[last].feedback[1]))

\* the first question was answered twice, the second never
C31_Witness ==
  /\ PromptBuilt
  /\ Cardinality(AnswersTo(1)) = 2
  /\ AnswersTo(2) = {}
  /\ result.value[1].history[1].result = "correct"
  /\ op.input.answers[1].correctness = "incorrect"
  /\ result.value[1].history[2].status = "unanswered"

\* the boost inside the returned count: base + boost never leaves 4..20
BoostChosen == ChosenCount - ReferenceBase(TotalChars(op.input.sources))

\* the blueprints with one more item in exactly one of the three lists
OneLonger(cov) ==
  { [cov EXCEPT !.concepts = Append(@, <<"item">>)],
    [cov EXCEPT !.misconceptions = Append(@, <<"item">>)],
    [cov EXCEPT !.learningGoals = Append(@, <<"item">>)] }

\* C32: the complexity boost of chooseQuestionCountFromSources lies in 0..4
\* and does not decrease when one of the three lists (concepts,
\* misconceptions, learningGoals) grows while the other two stay as they are.
C32_BoostMonotone ==
  CountChosen =>
    /\ BoostChosen \in 0..4
    /\ \A longer \in OneLonger(op.input.coverage) :
         /\ complexityBoostFor(longer) \in 0..4
         /\ complexityBoostFor(longer) >= BoostChosen
         /\ chooseQuestionCountFromSources(op.input.sources, longer) >= ChosenCount

\* five signals give no boost, and a sixth concept gives the first one
C32_Witness ==
  /\ CountChosen
  /\ ReferenceSignals(op.input.coverage) = 5
  /\ BoostChosen = 0
  /\ complexityBoostFor([op.input.coverage EXCEPT !.concepts = Append(@, <<"item">>)]) = 1

\* the step in which the database executes an attemptAnswer.create
AnswerRowsAdded == (Len(db.answers) + 1)..Len(db'.answers)

AttemptFinished(a) == db.attempts[a].status = "finished"

\* a step of the request in focus, not a change of focus to another request
SameRequest == op' = op /\ parked' = parked

\* C33: no answer record is ever created for an attempt whose status is
\* finished: a submission that finds the attempt finished is answered 409
\* and stores nothing, and no interleaving of a finish request with a
\* submission in flight lets a record be created after the attempt finished.
C33_NoAnswerForFinishedAttempt ==
  [][/\ \A i \in AnswerRowsAdded : ~AttemptFinished(db'.answers[i].attemptId)
     /\ (op.kind = "answer" /\ pc = "findAttempt" /\ pc' = "done" /\ SameRequest
         /\ op.input.attemptId \in 1..Len(db.attempts) /\ AttemptFinished(op.input.attemptId)) =>
          /\ response'[1].status = 409
          /\ db' = db]_vars

\* C34: once an attempt is finished, its status, scorePercent, finishedAt
\* and weak-area summary never change again; a later or concurrent finish
\* request returns the stored score and updates nothing.
C34_FinishedAttemptFrozen ==
  [][/\ \A a \in 1..Len(db.attempts) : AttemptFinished(a) => db'.attempts[a] = db.attempts[a]
     /\ (op.kind = "finish" /\ pc = "finishFind" /\ pc' = "done" /\ SameRequest
         /\ op.input.attemptId \in 1..Len(db.attempts) /\ AttemptFinished(op.input.attemptId)) =>
          /\ response'[1].scorePercent = db.attempts[op.input.attemptId].scorePercent
          /\ db' = db]_vars

\* the places in the question table of the questions of an attempt's quiz
QuestionsOf(a) == {k \in 1..Len(db.questions) : db.questions[k].quizId = db.attempts[a].quizId}

\* the answers of attempt a to question k that no other one was created after
LatestAnswers(a, k) ==
  LET mine == {i \in 1..Len(db.answers) : db.answers[i].attemptId = a /\ db.answers[i].questionId = k}
  IN {i \in mine : \A j \in mine : db.answers[j].createdAt <= db.answers[i].createdAt}

\* a score in halves: 0, 0.5, 1 are 0, 1, 2
Halves(score) == IF score = JNum(1) THEN 2 ELSE IF score = JHalf(0) THEN 1 ELSE 0

RECURSIVE SumOver(_, _)
SumOver(f, keys) ==
  IF keys = {} THEN 0
  ELSE LET k == CHOOSE x \in keys : TRUE IN f[k] + SumOver(f, keys \ {k})

\* C35: a finished attempt has scorePercent = 100 * (sum over the quiz's
\* questions of the score of the most recently created answer to it in this
\* attempt, 0 when unanswered) / (number of questions), within [0, 100],
\* and weakAreas is exactly the prompts of the questions whose latest score
\* is below 0.5, unanswered ones included.
C35_FinishScore ==
  \A a \in 1..Len(db.attempts) :
    AttemptFinished(a) =>
      LET percent == db.attempts[a].scorePercent[1]
          weakAreas == db.attempts[a].summaryJson[1].weakAreas
      IN /\ 0 <= percent.num /\ percent.num <= 100 * percent.den
         /\ \E latest \in [QuestionsOf(a) -> 0..2] :
              /\ \A k \in QuestionsOf(a) :
                   IF LatestAnswers(a, k) = {} THEN latest[k] = 0
                   ELSE \E i \in LatestAnswers(a, k) : latest[k] = Halves(db.answers[i].score)
              /\ percent.num * 2 * Cardinality(QuestionsOf(a))
                   = 100 * SumOver(latest, QuestionsOf(a)) * percent.den
              /\ {weakAreas[i] : i \in 1..Len(weakAreas)}
                   = {db.questions[k].prompt : k \in {q \in QuestionsOf(a) : latest[q] < 1}}
              /\ Len(weakAreas) = Cardinality({q \in QuestionsOf(a) : latest[q] < 1})

\* the first question was answered wrongly and then correctly, the other
\* two were never answered: one point of three, and two weak areas
C35_Witness ==
  /\ AttemptFinished(1)
  /\ Len(db.answers) = 2
  /\ db.answers[1].questionId = 1 /\ db.answers[1].score = JNum(0)
  /\ db.answers[2].questionId = 1 /\ db.answers[2].score = JNum(1)
  /\ db.answers[2].createdAt > db.answers[1].createdAt
  /\ db.attempts[1].scorePercent[1] = [num |-> 200, den |-> 6]
  /\ db.attempts[1].summaryJson[1].weakAreas = <<db.questions[2].prompt, db.questions[3].prompt>>

ChoiceWithoutIndex(k) ==
  /\ db.questions[k].type = "multiple_choice"
  /\ db.questions[k].metadataJson.correctChoiceIndex = None

\* C36: a multiple-choice question persisted without a correctChoiceIndex
\* is graded incorrect, with score 0, for every submitted answer.
C36_MissingIndexNeverCorrect ==
  \A i \in 1..Len(db.answers) :
    ChoiceWithoutIndex(db.answers[i].questionId) =>
      /\ db.answers[i].correctness = "incorrect"
      /\ db.answers[i].score = JNum(0)

OpenEndedRow(i) == db.questions[db.answers[i].questionId].type # "multiple_choice"

\* C37: an open-ended answer is stored with score 1 for correct, 0.5 for
\* partially_correct and 0 for incorrect, so every stored score is 0, 0.5
\* or 1; in offline mode no open-ended answer is stored with a score below
\* 0.5, and an answered open-ended question is neither a weak area of the
\* finished attempt nor a trouble-question candidate.
C37_OpenEndedScores ==
  /\ \A i \in 1..Len(db.answers) :
       /\ db.answers[i].score \in {JNum(0), JHalf(0), JNum(1)}
       /\ OpenEndedRow(i) =>
            /\ db.answers[i].score =
                 (CASE db.answers[i].correctness = "correct" -> JNum(1)
                    [] db.answers[i].correctness = "partially_correct" -> JHalf(0)
                    [] db.answers[i].correctness = "incorrect" -> JNum(0))
            /\ env.MOCK_LLM =>
                 /\ db.answers[i].score \in {JHalf(0), JNum(1)}
                 /\ AttemptFinished(db.answers[i].attemptId) =>
                      \A w \in 1..Len(db.attempts[db.answers[i].attemptId].summaryJson[1].weakAreas) :
                        db.attempts[db.answers[i].attemptId].summaryJson[1].weakAreas[w]
                          # db.questions[db.answers[i].questionId].prompt
  /\ env.MOCK_LLM =>
       \A c \in 1..Len(getTroubleQuestionCandidates(db.answers, db.questions)) :
         getTroubleQuestionCandidates(db.answers, db.questions)[c].type = "multiple_choice"

\* offline: an open-ended answer stored with half credit, another question
\* missed, and the attempt finished with only that other question weak
C37_Witness ==
  /\ env.MOCK_LLM
  /\ AttemptFinished(1)
  /\ \E i \in 1..Len(db.answers) :
       /\ OpenEndedRow(i)
       /\ db.answers[i].score = JHalf(0)
       /\ db.answers[i].correctness = "partially_correct"
  /\ \E i \in 1..Len(db.answers) : ~OpenEndedRow(i) /\ db.answers[i].score = JNum(0)
  /\ Len(getTroubleQuestionCandidates(db.answers, db.questions)) = 1

\* C38: the generationMode in the metadata of a returned run is "mock"
\* exactly when its five passes were served by their fallback producers
\* and "live" exactly when they contacted the provider; the five passes
\* use one mode, whatever happens to the offline flag while the run is
\* suspended.
C38_GenerationModeMatchesPasses ==
  RunReturned =>
    LET mode == result.value[1].metadata.generationMode
    IN /\ mode \in {"mock", "live"}
       /\ (mode = "mock") <=> (OfflineClient /\ runRequests = 0)
       /\ (mode = "live") <=> (~OfflineClient /\ runRequests >= Len(PassOrder))

====
